---- MODULE Spec2Model ----
(***************************************************************************)
(* A model of upyt: the REPL driver (upy_repl.py), the filesystem facade   *)
(* and its patch planner (upy_fs.py) and the directory synchroniser        *)
(* (sync.py).  Bytes are natural numbers 0..255, byte strings are          *)
(* sequences of bytes, Python's 0-based half-open slices s[i:j] are        *)
(* written PySlice(s, i, j).                                               *)
(***************************************************************************)
EXTENDS Integers, Sequences, FiniteSets, TLC

\* ------------------------------------------------------------------------
\* Generic helpers (Python built-ins the code relies on)
\* ------------------------------------------------------------------------

Min(x, y) == IF x <= y THEN x ELSE y

Max(x, y) == IF x >= y THEN x ELSE y

\* s[i:j] of Python for 0 <= i, 0 <= j: the bounds are clamped to len(s).
PySlice(s, i, j) == SubSeq(s, i + 1, Min(j, Len(s)))

\* The byte string made of n copies of byte b (b"\xFF" * n).
RECURSIVE Rep(_, _)
Rep(b, n) == IF n <= 0 THEN <<>> ELSE <<b>> \o Rep(b, n - 1)

\* b"".join(seqs)
RECURSIVE Concat(_)
Concat(seqs) == IF seqs = <<>> THEN <<>> ELSE Head(seqs) \o Concat(Tail(seqs))

\* sum of a sequence of numbers
RECURSIVE SumSeq(_)
SumSeq(s) == IF s = <<>> THEN 0 ELSE Head(s) + SumSeq(Tail(s))

\* All sequences over S of length at most n.
RECURSIVE SeqsUpTo(_, _)
SeqsUpTo(S, n) ==
  IF n = 0 THEN {<<>>}
  ELSE LET shorter == SeqsUpTo(S, n - 1)
       IN  shorter \cup {Append(s, x) : s \in {t \in shorter : Len(t) = n - 1}, x \in S}

\* len(str(n)) for n >= 0
RECURSIVE DecLen(_)
DecLen(n) == IF n < 10 THEN 1 ELSE 1 + DecLen(n \div 10)

\* ------------------------------------------------------------------------
\* difflib.SequenceMatcher(None, a, b).get_opcodes(), as upy_fs.py uses it
\* (no junk; the autojunk heuristic only applies to sequences of 200 or
\* more elements, beyond every bound used here).
\* ------------------------------------------------------------------------

\* Length of the common run of a[i:ahi] and b[j:bhi] (0-based i, j).
RECURSIVE MatchLen(_, _, _, _, _, _)
MatchLen(a, b, i, j, ahi, bhi) ==
  IF i < ahi /\ j < bhi /\ a[i + 1] = b[j + 1]
  THEN 1 + MatchLen(a, b, i + 1, j + 1, ahi, bhi)
  ELSE 0

\* The block find_longest_match prefers among blocks: the longest, of
\* those the one starting earliest in a, of those the one starting earliest
\* in b.
BestBlock(blocks) ==
  CHOOSE c \in blocks : \A d \in blocks :
    \/ c[3] > d[3]
    \/ c[3] = d[3] /\ c[1] < d[1]
    \/ c[3] = d[3] /\ c[1] = d[1] /\ c[2] <= d[2]

\* find_longest_match; (alo, blo, 0) if nothing matches.
FindLongestMatch(a, b, alo, ahi, blo, bhi) ==
  CHOOSE m \in {BestBlock(blocks) : blocks \in
                  {{<<i, j, MatchLen(a, b, i, j, ahi, bhi)>> :
                      i \in alo .. ahi - 1, j \in blo .. bhi - 1} \cup {<<alo, blo, 0>>}}} : TRUE

\* The blocks on both sides of the longest block m, with m between them.
RECURSIVE RawBlocks(_, _, _, _, _, _)
AroundBlock(a, b, alo, ahi, blo, bhi, m) ==
  IF m[3] = 0 THEN <<>>
  ELSE (IF alo < m[1] /\ blo < m[2] THEN RawBlocks(a, b, alo, m[1], blo, m[2]) ELSE <<>>)
       \o <<m>>
       \o (IF m[1] + m[3] < ahi /\ m[2] + m[3] < bhi
           THEN RawBlocks(a, b, m[1] + m[3], ahi, m[2] + m[3], bhi) ELSE <<>>)

\* The recursion of get_matching_blocks, in sorted order, before collapsing.
RawBlocks(a, b, alo, ahi, blo, bhi) ==
  CHOOSE r \in {AroundBlock(a, b, alo, ahi, blo, bhi, m) :
                  m \in {FindLongestMatch(a, b, alo, ahi, blo, bhi)}} : TRUE

\* get_matching_blocks collapses adjacent blocks into one.
RECURSIVE CollapseBlocks(_, _)
CollapseBlocks(cur, rest) ==
  IF rest = <<>> THEN (IF cur[3] > 0 THEN <<cur>> ELSE <<>>)
  ELSE LET nx == Head(rest)
       IN  IF cur[1] + cur[3] = nx[1] /\ cur[2] + cur[3] = nx[2]
           THEN CollapseBlocks(<<cur[1], cur[2], cur[3] + nx[3]>>, Tail(rest))
           ELSE (IF cur[3] > 0 THEN <<cur>> ELSE <<>>) \o CollapseBlocks(nx, Tail(rest))

\* get_matching_blocks, with the (len(a), len(b), 0) sentinel at the end.
MatchingBlocks(a, b) ==
  CollapseBlocks(<<0, 0, 0>>, RawBlocks(a, b, 0, Len(a), 0, Len(b)))
    \o <<(<<Len(a), Len(b), 0>>)>>

Op(tag, i1, i2, j1, j2) == [tag |-> tag, i1 |-> i1, i2 |-> i2, j1 |-> j1, j2 |-> j2]

\* get_opcodes
RECURSIVE OpcodesFrom(_, _, _)
OpcodesFrom(blocks, i, j) ==
  IF blocks = <<>> THEN <<>>
  ELSE LET ai == Head(blocks)[1]
           bj == Head(blocks)[2]
           size == Head(blocks)[3]
           gap == IF i < ai /\ j < bj THEN <<Op("replace", i, ai, j, bj)>>
                  ELSE IF i < ai THEN <<Op("delete", i, ai, j, bj)>>
                  ELSE IF j < bj THEN <<Op("insert", i, ai, j, bj)>>
                  ELSE <<>>
           eq == IF size > 0 THEN <<Op("equal", ai, ai + size, bj, bj + size)>> ELSE <<>>
       IN  gap \o eq \o OpcodesFrom(Tail(blocks), ai + size, bj + size)

GetOpcodes(a, b) == OpcodesFrom(MatchingBlocks(a, b), 0, 0)

\* ------------------------------------------------------------------------
\* Codecs and the patch planner (upy_fs.py)
\* ------------------------------------------------------------------------

\* Characters one byte takes in Python's repr of a bytes object.  The quote
\* is escaped only when the string holds both ' (39) and " (34): repr then
\* delimits with ' and escapes it; with ' alone it delimits with ".
ByteReprLen(b, escapeQuote) ==
  IF b \in {9, 10, 13, 92} THEN 2
  ELSE IF b = 39 THEN (IF escapeQuote THEN 2 ELSE 1)
  ELSE IF b >= 32 /\ b <= 126 THEN 1
  ELSE 4

\* len(repr(data)) - 3: the characters between the quotes of b'...'.
ReprBodyLen(data) ==
  LET both == (\E k \in 1 .. Len(data) : data[k] = 39) /\ (\E k \in 1 .. Len(data) : data[k] = 34)
  IN  SumSeq([k \in 1 .. Len(data) |-> ByteReprLen(data[k], both)])

\* A device-side command with the number of bytes it writes to the output file:
\*   kind "lit": w(b'...')      kind "hex": w(uh(b'...'))   (data is the block)
\*   kind "seek": s(arg)        kind "copy": w(r(arg))
Cmd(kind, data, arg, n) == [kind |-> kind, data |-> data, arg |-> arg, n |-> n]

\* data_to_writes: one w(...) per block of at most block_size bytes, literal
\* when strictly shorter on the wire than the hex form.
RECURSIVE DataToWrites(_, _)
DataToWrites(data, block_size) ==
  IF data = <<>> THEN <<>>
  ELSE LET block == PySlice(data, 0, block_size)
           rest == PySlice(data, block_size, Len(data))
           len_as_bytes == 6 + ReprBodyLen(block)
           len_as_hex == 10 + Len(block) * 2
           cmd == IF len_as_bytes < len_as_hex
                  THEN Cmd("lit", block, 0, Len(block))
                  ELSE Cmd("hex", block, 0, Len(block))
       IN  <<cmd>> \o DataToWrites(rest, block_size)

None == -1

\* One iteration of the loop of combine_sm_operations.  st holds the pending
\* operation (op, i1, i2, j1, j2; real = cur_opcode_is_real), read_offset
\* (ro), the operations yielded so far (out) and whether both sanity
\* assertions held (ok).
CombineStep(st, o, equal_overhead, seek_overhead) ==
  LET cur == Op(st.op, st.i1, st.i2, st.j1, st.j2)
      flushed == IF st.real THEN Append(st.out, cur) ELSE st.out
  IN  IF o.tag \in {"insert", "replace"}
      THEN IF st.op = "insert"
           THEN [st EXCEPT !.j2 = o.j2, !.real = TRUE, !.ok = @ /\ (st.j2 = o.j1)]
           ELSE [st EXCEPT !.out = flushed, !.real = TRUE, !.op = "insert",
                           !.i1 = None, !.i2 = None, !.j1 = o.j1, !.j2 = o.j2]
      ELSE IF o.tag = "equal"
      THEN LET overhead == equal_overhead + (IF st.ro # o.i1 THEN seek_overhead ELSE 0)
           IN  IF st.op = "insert" /\ o.i2 - o.i1 <= overhead
               THEN [st EXCEPT !.j2 = o.j2, !.real = TRUE, !.ok = @ /\ (st.j2 = o.j1)]
               ELSE [st EXCEPT !.out = flushed, !.real = TRUE, !.op = "equal",
                               !.i1 = o.i1, !.i2 = o.i2, !.j1 = None, !.j2 = None,
                               !.ro = o.i2]
      ELSE st

RECURSIVE CombineFold(_, _, _, _)
CombineFold(st, ops, equal_overhead, seek_overhead) ==
  IF ops = <<>> THEN st
  ELSE CombineFold(CombineStep(st, Head(ops), equal_overhead, seek_overhead),
                   Tail(ops), equal_overhead, seek_overhead)

\* The locals of combine_sm_operations before its loop: the 'fake' empty
\* insertion.
CombineStart ==
  [real |-> FALSE, op |-> "insert", i1 |-> None, i2 |-> None,
   j1 |-> 0, j2 |-> 0, ro |-> 0, out |-> <<>>, ok |-> TRUE]

\* "Flush any remaining operation": everything yielded once the loop is over.
CombineFlush(st) ==
  IF st.real THEN Append(st.out, Op(st.op, st.i1, st.i2, st.j1, st.j2)) ELSE st.out

\* combine_sm_operations: the plan, a sequence of "insert" (j1, j2) and
\* "equal" (i1, i2) operations.
CombineSmOperations(operations, equal_overhead, seek_overhead) ==
  CombineFlush(CombineFold(CombineStart, operations, equal_overhead, seek_overhead))

\* probably_mostly_hex of data_to_update_commands
ProbablyMostlyHex(new_content, block_size) ==
  LET sample == PySlice(new_content, 0, block_size)
  IN  ReprBodyLen(sample) > Len(sample) * 2

OverheadScale(new_content, block_size) ==
  IF ProbablyMostlyHex(new_content, block_size) THEN 2 ELSE 1

\* len(f"s({len(old_content) // 2})\n") // overhead_scale
SeekOverhead(old_content, new_content, block_size) ==
  (4 + DecLen(Len(old_content) \div 2)) \div OverheadScale(new_content, block_size)

\* len("w(r(9))\n") // overhead_scale
EqualOverhead(new_content, block_size) == 8 \div OverheadScale(new_content, block_size)

\* The plan data_to_update_commands works from.
UpdatePlan(old_content, new_content, block_size) ==
  CombineSmOperations(GetOpcodes(old_content, new_content),
                      EqualOverhead(new_content, block_size),
                      SeekOverhead(old_content, new_content, block_size))

\* The w(r(n)) commands that copy old[read_offset:i2].
RECURSIVE CopyCmds(_, _, _)
CopyCmds(read_offset, i2, block_size) ==
  IF read_offset < i2
  THEN LET length == Min(i2 - read_offset, block_size)
       IN  <<Cmd("copy", <<>>, length, length)>> \o CopyCmds(read_offset + length, i2, block_size)
  ELSE <<>>

\* The loop of data_to_update_commands over the plan.
RECURSIVE PlanToCmds(_, _, _, _)
PlanToCmds(plan, new_content, block_size, read_offset) ==
  IF plan = <<>> THEN <<>>
  ELSE LET o == Head(plan)
       IN  IF o.tag \in {"insert", "replace"}
           THEN DataToWrites(PySlice(new_content, o.j1, o.j2), block_size)
                  \o PlanToCmds(Tail(plan), new_content, block_size, read_offset)
           ELSE IF o.tag = "equal"
           THEN (IF read_offset # o.i1 THEN <<Cmd("seek", <<>>, o.i1, 0)>> ELSE <<>>)
                  \o CopyCmds(o.i1, o.i2, block_size)
                  \o PlanToCmds(Tail(plan), new_content, block_size, o.i2)
           ELSE PlanToCmds(Tail(plan), new_content, block_size, read_offset)

DataToUpdateCommands(old_content, new_content, block_size) ==
  PlanToCmds(UpdatePlan(old_content, new_content, block_size), new_content, block_size, 0)

\* What the hasher callback was fed: old[i1:i2] of every "equal", in order.
RECURSIVE HostHashInput(_, _)
HostHashInput(plan, old_content) ==
  IF plan = <<>> THEN <<>>
  ELSE (IF Head(plan).tag = "equal"
        THEN PySlice(old_content, Head(plan).i1, Head(plan).i2) ELSE <<>>)
       \o HostHashInput(Tail(plan), old_content)

\* batch_commands: a batch is the list of its commands (its text is their
\* "\n".join) and the sum of their byte counts.
Batch(cmds, n) == [cmds |-> cmds, n |-> n]

RECURSIVE BatchFold(_, _, _, _, _)
BatchFold(cmds, this_batch, this_batch_bytes, bytes_per_batch, commands_per_batch) ==
  IF cmds = <<>>
  THEN (IF this_batch_bytes > 0 THEN <<Batch(this_batch, this_batch_bytes)>> ELSE <<>>)
  ELSE LET c == Head(cmds)
           flush == this_batch_bytes + c.n > bytes_per_batch
                      \/ Len(this_batch) + 1 > commands_per_batch
       IN  IF flush
           THEN <<Batch(this_batch, this_batch_bytes)>>
                  \o BatchFold(Tail(cmds), <<c>>, c.n, bytes_per_batch, commands_per_batch)
           ELSE BatchFold(Tail(cmds), Append(this_batch, c), this_batch_bytes + c.n,
                          bytes_per_batch, commands_per_batch)

BatchCommands(cmds, bytes_per_batch, commands_per_batch) ==
  BatchFold(cmds, <<>>, 0, bytes_per_batch, commands_per_batch)

\* ------------------------------------------------------------------------
\* The device executing patch commands: fi is the file being read (its
\* content src and position cursor), fo the temporary file being written
\* (out); hash is everything r() returned, which make_read_and_hash feeds to
\* the device's sha256.
\* ------------------------------------------------------------------------

DevExecCmd(d, c) ==
  IF c.kind \in {"lit", "hex"} THEN [d EXCEPT !.out = @ \o c.data]
  ELSE IF c.kind = "seek" THEN [d EXCEPT !.cursor = c.arg]
  ELSE LET data == PySlice(d.src, d.cursor, d.cursor + c.arg)
       IN  [d EXCEPT !.out = @ \o data, !.cursor = @ + Len(data), !.hash = @ \o data]

RECURSIVE DevExecCmds(_, _)
DevExecCmds(d, cmds) ==
  IF cmds = <<>> THEN d ELSE DevExecCmds(DevExecCmd(d, Head(cmds)), Tail(cmds))

RECURSIVE DevExecBatches(_, _)
DevExecBatches(d, batches) ==
  IF batches = <<>> THEN d
  ELSE DevExecBatches(DevExecCmds(d, Head(batches).cmds), Tail(batches))

\* ========================================================================
\* FilesystemAPI.update_file (upy_fs.py), one call, step by step
\* ========================================================================

VARIABLES
  u_pc,       \* where the call is
  u_dev,      \* the device's files: name -> content, or NoFile
  u_dev0,     \* the device's files when the call started
  u_old,      \* old_content
  u_new,      \* new_content
  u_safe,     \* safe
  u_bs,       \* block_size
  u_lim,      \* block_transaction_limit
  u_batches,  \* the batches of patch commands not yet executed
  u_sess,     \* device-side session: position of fi, everything r() returned
  u_readhash  \* read_hash on the host: what its update() calls were fed

updVars == <<u_pc, u_dev, u_dev0, u_old, u_new, u_safe, u_bs, u_lim, u_batches,
             u_sess, u_readhash>>

\* State of one interrupt_and_enter_repl call and of the device it talks to.
VARIABLES
  i_pc,           \* where the call is
  i_num_attempts, \* num_attempts
  i_attempt,      \* attempts started so far
  i_n,            \* random_number of the current attempt
  i_used,         \* the random numbers drawn so far
  i_unmatched,    \* unmatched_output
  i_log,          \* every write and read of the call, in order, with its bytes
  i_stale,        \* bytes already sent by the device when the probe was written
  i_timeout,      \* conn.timeout
  i_timeout0,     \* conn.timeout when the call began
  i_in,           \* bytes that reached the host and were not read yet
  i_late,         \* bytes the device sent that are still on their way
  i_dev,          \* what the device is doing
  i_pend          \* what the host wrote and the device has not handled yet

intrVars == <<i_pc, i_num_attempts, i_attempt, i_n, i_used, i_unmatched, i_log, i_stale,
              i_timeout, i_timeout0, i_in, i_late, i_dev, i_pend>>

\* State of one raw_mode scope, the raw_paste_exec calls made inside it and
\* the device.
VARIABLES
  r_pc,      \* where the raw_mode scope is
  r_dev,     \* mode of the device's REPL
  r_out,     \* every byte written to the connection, in order
  r_exc,     \* the exception travelling out of the scoped region ("none" if none)
  r_execs,   \* raw_paste_exec calls begun inside the scope
  p_pc,      \* where the current raw_paste_exec is
  p_code0,   \* code_utf8 of the current call, as passed
  p_code,    \* code_utf8: the part not written yet
  p_W,       \* window_size_increment
  p_window,  \* window_size
  p_acks,    \* 0x01 bytes the current call has read after the window size
  p_result,  \* what the last finished call returned or raised
  p_outputs, \* code_output and exception_output, once read
  p_args     \* what the last finished call returned, or the arguments of
             \* the SomeCodeNotSentError it raised

replVars == <<r_pc, r_dev, r_out, r_exc, r_execs, p_pc, p_code0, p_code, p_W, p_window,
              p_acks, p_result, p_outputs, p_args>>

\* State of one sync_to_device call: the three trees and the call's locals.
VARIABLES
  s_pc,             \* where the call is
  s_host,           \* the tree under host_dir, the cache directory left out
  s_cache,          \* the tree under cache_dir (of the device_id in use)
  s_dev,            \* the tree under device_dir
  s_dev0,           \* s_dev when the call began
  s_cache0,         \* s_cache when the call began
  s_fe,             \* force_enumerate_files
  s_fs,             \* force_safe_update
  s_version,        \* version
  s_version_remote, \* the version get_upyt_id returned
  s_device_id,      \* device_id
  s_cache_version,  \* cache_version
  s_ood,            \* out_of_date_cache
  s_to_update,      \* to_update
  s_i               \* position of the running loop in sorted(to_update)

syncVars == <<s_pc, s_host, s_cache, s_dev, s_dev0, s_cache0, s_fe, s_fs, s_version,
              s_version_remote, s_device_id, s_cache_version, s_ood, s_to_update, s_i>>

\* State of one run of the diff planner: SequenceMatcher.get_opcodes, then
\* the loop of combine_sm_operations.
VARIABLES
  d_pc,    \* where the run is
  d_old,   \* old_content
  d_new,   \* new_content
  d_eo,    \* equal_overhead
  d_so,    \* seek_overhead
  d_ops,   \* the opcodes the loop has not consumed yet
  d_st     \* the loop's locals and what it yielded so far

diffVars == <<d_pc, d_old, d_new, d_eo, d_so, d_ops, d_st>>

\* State of one run of batch_commands.
VARIABLES
  b_pc,     \* where the run is
  b_in,     \* command_iter, as passed
  b_bpb,    \* bytes_per_batch
  b_cpb,    \* commands_per_batch
  b_rest,   \* the commands not consumed yet
  b_this,   \* this_batch
  b_bytes,  \* this_batch_bytes
  b_out     \* the batches yielded so far

batchVars == <<b_pc, b_in, b_bpb, b_cpb, b_rest, b_this, b_bytes, b_out>>

\* State of the first steps of one sync_to_device call: get_upyt_id, then
\* the new version is written to the device.
VARIABLES
  t_pc,      \* where the call is
  t_file,    \* the device's token file: its bytes, or NoFile
  t_file0,   \* t_file when the call began
  t_result   \* version and device_id: what the call returned, then
             \* the locals of sync_to_device

tokVars == <<t_pc, t_file, t_file0, t_result>>

\* State of one round trip through the token codec.
VARIABLES
  c_pc,         \* where the round trip is
  c_version,    \* version, as passed to encode_upyt_id
  c_device_id,  \* device_id, as passed to encode_upyt_id
  c_encoded,    \* what encode_upyt_id returned
  c_decoded     \* what decode_upyt_id made of it

codecVars == <<c_pc, c_version, c_device_id, c_encoded, c_decoded>>

\* State of one write_file_raw call followed by one read_file_raw call on
\* the same path, and of the device's file.
VARIABLES
  f_pc,       \* where the calls are
  f_content,  \* content, as passed to write_file_raw
  f_bs,       \* block_size of write_file_raw
  f_rbs,      \* block_size of read_file_raw
  f_rest,     \* data of data_to_writes: what it has not sliced off yet
  f_cmds,     \* the (python_snippet, bytes_written) pairs yielded so far
  f_dev,      \* the device's file at path: its bytes, or NoFile
  f_open,     \* mode of the device's file object f ("none": not open)
  f_pos,      \* position of f
  f_data,     \* data of read_file_raw
  f_reads     \* pnb commands executed so far

fileVars == <<f_pc, f_content, f_bs, f_rbs, f_rest, f_cmds, f_dev, f_open, f_pos,
              f_data, f_reads>>

\* State of one WebReplConnection, from the end of the websocket handshake
\* on, and of the device it talks to.
VARIABLES
  k_pc,        \* where the caller's thread is
  k_sock,      \* self._sock: "open" or "closed"
  k_thread,    \* the receiver thread: "running" or "ended"
  k_lastframe, \* opcode of the last frame the receiver thread handled
  k_wire,      \* the frames the device sent that were not received yet
  k_nframes,   \* how many frames the device has sent
  k_pipe,      \* the bytes in the pipe, written and not read yet
  k_piped,     \* every byte ever written to the pipe
  k_sent,      \* the frames sent to the device, in order
  k_auth,      \* what the read_until calls of the constructor returned
  k_err,       \* the exception that left the constructor ("none" if none)
  k_nops,      \* calls made on the connection after its construction
  k_last       \* the last call made after close() and how it ended

webVars == <<k_pc, k_sock, k_thread, k_lastframe, k_wire, k_nframes, k_pipe, k_piped,
             k_sent, k_auth, k_err, k_nops, k_last>>

\* State of one FilesystemAPI.remove_recursive call and of the device's
\* remove_recursive it runs.
VARIABLES
  x_pc,       \* where the call is: on the host, or waiting for the device
  x_path,     \* path
  x_tree,     \* the paths that exist on the device
  x_tree0,    \* x_tree when the call began
  x_issue,    \* x_tree when the running attempt was issued
  x_cur,      \* path of the innermost device-side call
  x_attempts  \* how many times the host has issued the command

rmVars == <<x_pc, x_path, x_tree, x_tree0, x_issue, x_cur, x_attempts>>

\* State of raw_paste_exec calls made one after another in one raw_mode
\* scope, with the bytes of the connection.
VARIABLES
  q_pc,       \* where the running call is
  q_in,       \* bytes from the device that are not read yet
  q_out,      \* every byte written to the connection
  q_in0,      \* q_in when the running call began
  q_out0,     \* q_out when the running call began
  q_code0,    \* code
  q_code,     \* code_utf8
  q_W,        \* window_size_increment
  q_window,   \* window_size
  q_refused,  \* the send loop was left by its break
  q_stdout,   \* code_output
  q_stderr,   \* exception_output
  q_result,   \* how the last call ended
  q_prev,     \* how the call before it ended
  q_calls     \* calls made

execVars == <<q_pc, q_in, q_out, q_in0, q_out0, q_code0, q_code, q_W, q_window,
                 q_refused, q_stdout, q_stderr, q_result, q_prev, q_calls>>

\* State of a FilesystemAPI and of the names its device has in scope.
VARIABLES
  e_pc,       \* "idle" between the facade's methods, "ensure", "invoke"
  e_helper,   \* the helper the running method needs
  e_defined,  \* self._defined
  e_device,   \* the names whose definition ran on the device
  e_sent,     \* the names whose definition was sent, in order
  e_stack,    \* the _ensure_defined calls that run: name and dependencies left
  e_result,   \* how the last method ended
  e_methods   \* methods called

defVars == <<e_pc, e_helper, e_defined, e_device, e_sent, e_stack, e_result, e_methods>>

\* State of enumerate_local_files as sync_to_device calls it.
VARIABLES
  n_pc,        \* "start", "visit", "done"
  n_tree,      \* the paths under host_dir, each a sequence of names
  n_exclude,   \* exclude, as the caller passed it
  n_excluded,  \* excluded
  n_to_visit,  \* to_visit
  n_yielded    \* the paths yielded so far

enumVars == <<n_pc, n_tree, n_exclude, n_excluded, n_to_visit, n_yielded>>

\* State of one data_to_update_commands run.
VARIABLES
  g_pc,    \* "start", "loop", "done"
  g_old,   \* old_content
  g_new,   \* new_content
  g_bs,    \* block_size
  g_ops,   \* the operations of the plan not handled yet
  g_ro,    \* read_offset
  g_cmds   \* the (python_snippet, bytes_written) pairs yielded so far

cmdsVars == <<g_pc, g_old, g_new, g_bs, g_ops, g_ro, g_cmds>>

\* State of the sending side of one WebReplConnection: the caller's thread
\* in write(), the receiver thread, the send lock and the socket.
VARIABLES
  l_lock,     \* self._send_lock: "free", or the thread that holds it
  l_sock,     \* self._sock: "open" or "closed"
  l_cpc,      \* the caller: "idle" or "sending" (inside sendall)
  l_cbuf,     \* the bytes of the caller's frame that sendall has not sent yet
  l_rpc,      \* the receiver thread: "recv", "reply", "sending" or "ended"
  l_rframe,   \* the frame the receiver thread is handling
  l_rbuf,     \* the bytes of the receiver's reply that sendall has not sent yet
  l_in,       \* the frames of the device not received yet
  l_out,      \* every byte the socket has taken, in order
  l_frames,   \* the encoded frames handed to sendall, in order
  l_writes    \* calls of write() so far

sendVars == <<l_lock, l_sock, l_cpc, l_cbuf, l_rpc, l_rframe, l_rbuf, l_in, l_out,
              l_frames, l_writes>>

vars == <<updVars, intrVars, replVars, syncVars, diffVars, batchVars, tokVars, codecVars,
    fileVars, webVars, rmVars, execVars, defVars, enumVars, cmdsVars, sendVars>>

\* What the actions of each part leave alone: the variables of the others.
updRest == <<intrVars, replVars, syncVars, diffVars, batchVars, tokVars, codecVars,
    fileVars, webVars, rmVars, execVars, defVars, enumVars, cmdsVars, sendVars>>

intrRest == <<updVars, replVars, syncVars, diffVars, batchVars, tokVars, codecVars,
    fileVars, webVars, rmVars, execVars, defVars, enumVars, cmdsVars, sendVars>>

replRest == <<updVars, intrVars, syncVars, diffVars, batchVars, tokVars, codecVars,
    fileVars, webVars, rmVars, execVars, defVars, enumVars, cmdsVars, sendVars>>

syncRest == <<updVars, intrVars, replVars, diffVars, batchVars, tokVars, codecVars,
    fileVars, webVars, rmVars, execVars, defVars, enumVars, cmdsVars, sendVars>>

diffRest == <<updVars, intrVars, replVars, syncVars, batchVars, tokVars, codecVars,
    fileVars, webVars, rmVars, execVars, defVars, enumVars, cmdsVars, sendVars>>

batchRest == <<updVars, intrVars, replVars, syncVars, diffVars, tokVars, codecVars,
    fileVars, webVars, rmVars, execVars, defVars, enumVars, cmdsVars, sendVars>>

tokRest == <<updVars, intrVars, replVars, syncVars, diffVars, batchVars, codecVars,
    fileVars, webVars, rmVars, execVars, defVars, enumVars, cmdsVars, sendVars>>

codecRest == <<updVars, intrVars, replVars, syncVars, diffVars, batchVars, tokVars,
    fileVars, webVars, rmVars, execVars, defVars, enumVars, cmdsVars, sendVars>>

fileRest == <<updVars, intrVars, replVars, syncVars, diffVars, batchVars, tokVars,
    codecVars, webVars, rmVars, execVars, defVars, enumVars, cmdsVars, sendVars>>

webRest == <<updVars, intrVars, replVars, syncVars, diffVars, batchVars, tokVars,
    codecVars, fileVars, rmVars, execVars, defVars, enumVars, cmdsVars, sendVars>>

rmRest == <<updVars, intrVars, replVars, syncVars, diffVars, batchVars, tokVars,
    codecVars, fileVars, webVars, execVars, defVars, enumVars, cmdsVars, sendVars>>

execRest == <<updVars, intrVars, replVars, syncVars, diffVars, batchVars, tokVars,
    codecVars, fileVars, webVars, rmVars, defVars, enumVars, cmdsVars, sendVars>>

defRest == <<updVars, intrVars, replVars, syncVars, diffVars, batchVars, tokVars,
    codecVars, fileVars, webVars, rmVars, execVars, enumVars, cmdsVars, sendVars>>

enumRest == <<updVars, intrVars, replVars, syncVars, diffVars, batchVars, tokVars,
    codecVars, fileVars, webVars, rmVars, execVars, defVars, cmdsVars, sendVars>>

cmdsRest == <<updVars, intrVars, replVars, syncVars, diffVars, batchVars, tokVars,
    codecVars, fileVars, webVars, rmVars, execVars, defVars, enumVars, sendVars>>

sendRest == <<updVars, intrVars, replVars, syncVars, diffVars, batchVars, tokVars,
    codecVars, fileVars, webVars, rmVars, execVars, defVars, enumVars, cmdsVars>>

\* Each specification below runs one of the parts; the others rest.
UpdIdle ==
  /\ u_pc = "idle" /\ u_dev = <<>> /\ u_dev0 = <<>> /\ u_old = <<>> /\ u_new = <<>>
  /\ u_safe = FALSE /\ u_bs = 0 /\ u_lim = 0 /\ u_batches = <<>> /\ u_sess = <<>>
  /\ u_readhash = <<>>

IntrIdle ==
  /\ i_pc = "idle" /\ i_num_attempts = 0 /\ i_attempt = 0 /\ i_n = 0 /\ i_used = {}
  /\ i_unmatched = <<>> /\ i_log = <<>> /\ i_stale = 0 /\ i_timeout = 0
  /\ i_timeout0 = 0 /\ i_in = <<>> /\ i_late = <<>> /\ i_dev = "idle" /\ i_pend = <<>>

ReplIdle ==
  /\ r_pc = "idle" /\ r_dev = "idle" /\ r_out = <<>> /\ r_exc = "none" /\ r_execs = 0
  /\ p_pc = "idle" /\ p_code0 = <<>> /\ p_code = <<>> /\ p_W = 0 /\ p_window = 0
  /\ p_acks = 0 /\ p_result = "none" /\ p_outputs = <<>> /\ p_args = <<>>

SyncIdle ==
  /\ s_pc = "idle" /\ s_host = <<>> /\ s_cache = <<>> /\ s_dev = <<>> /\ s_dev0 = <<>>
  /\ s_cache0 = <<>> /\ s_fe = FALSE /\ s_fs = FALSE /\ s_version = 0
  /\ s_version_remote = 0 /\ s_device_id = <<>> /\ s_cache_version = 0
  /\ s_ood = FALSE /\ s_to_update = {} /\ s_i = 0

DiffIdle ==
  /\ d_pc = "idle" /\ d_old = <<>> /\ d_new = <<>> /\ d_eo = 0 /\ d_so = 0
  /\ d_ops = <<>> /\ d_st = <<>>

BatchIdle ==
  /\ b_pc = "idle" /\ b_in = <<>> /\ b_bpb = 0 /\ b_cpb = 0 /\ b_rest = <<>>
  /\ b_this = <<>> /\ b_bytes = 0 /\ b_out = <<>>

TokIdle ==
  /\ t_pc = "idle" /\ t_file = <<>> /\ t_file0 = <<>>
  /\ t_result = [version |-> 0, device_id |-> <<>>]

CodecIdle ==
  /\ c_pc = "idle" /\ c_version = 0 /\ c_device_id = <<>> /\ c_encoded = <<>>
  /\ c_decoded = [ok |-> FALSE, version |-> 0, device_id |-> <<>>]

FileIdle ==
  /\ f_pc = "idle" /\ f_content = <<>> /\ f_bs = 0 /\ f_rbs = 0 /\ f_rest = <<>>
  /\ f_cmds = <<>> /\ f_dev = <<>> /\ f_open = "none" /\ f_pos = 0 /\ f_data = <<>>
  /\ f_reads = 0

WebIdle ==
  /\ k_pc = "idle" /\ k_sock = "closed" /\ k_thread = "ended" /\ k_lastframe = "none"
  /\ k_wire = <<>> /\ k_nframes = 0 /\ k_pipe = <<>> /\ k_piped = <<>> /\ k_sent = <<>>
  /\ k_auth = <<>> /\ k_err = "none" /\ k_nops = 0
  /\ k_last = [call |-> "none", raised |-> "none", data |-> <<>>, n |-> 0]

RmIdle ==
  /\ x_pc = "idle" /\ x_path = "" /\ x_tree = {} /\ x_tree0 = {} /\ x_issue = {}
  /\ x_cur = "" /\ x_attempts = 0

ExecIdle ==
  /\ q_pc = "off" /\ q_in = <<>> /\ q_out = <<>> /\ q_in0 = <<>> /\ q_out0 = <<>>
  /\ q_code0 = <<>> /\ q_code = <<>> /\ q_W = 0 /\ q_window = 0 /\ q_refused = FALSE
  /\ q_stdout = <<>> /\ q_stderr = <<>> /\ q_result = "none" /\ q_prev = "none"
  /\ q_calls = 0

DefIdle ==
  /\ e_pc = "off" /\ e_helper = "" /\ e_defined = {} /\ e_device = {} /\ e_sent = <<>>
  /\ e_stack = <<>> /\ e_result = "none" /\ e_methods = 0

EnumIdle ==
  /\ n_pc = "off" /\ n_tree = {} /\ n_exclude = <<>> /\ n_excluded = {}
  /\ n_to_visit = <<>> /\ n_yielded = {}

CmdsIdle ==
  /\ g_pc = "off" /\ g_old = <<>> /\ g_new = <<>> /\ g_bs = 0 /\ g_ops = <<>> /\ g_ro = 0
  /\ g_cmds = <<>>

SendIdle ==
  /\ l_lock = "free" /\ l_sock = "off" /\ l_cpc = "off" /\ l_cbuf = <<>> /\ l_rpc = "off"
  /\ l_rframe = <<>> /\ l_rbuf = <<>> /\ l_in = <<>> /\ l_out = <<>> /\ l_frames = <<>>
  /\ l_writes = 0

UpdRestIdle == IntrIdle /\ ReplIdle /\ SyncIdle /\ DiffIdle /\ BatchIdle /\ TokIdle /\
    CodecIdle /\ FileIdle /\ WebIdle /\ RmIdle /\ ExecIdle /\ DefIdle /\ EnumIdle /\
    CmdsIdle /\ SendIdle

IntrRestIdle == UpdIdle /\ ReplIdle /\ SyncIdle /\ DiffIdle /\ BatchIdle /\ TokIdle /\
    CodecIdle /\ FileIdle /\ WebIdle /\ RmIdle /\ ExecIdle /\ DefIdle /\ EnumIdle /\
    CmdsIdle /\ SendIdle

ReplRestIdle == UpdIdle /\ IntrIdle /\ SyncIdle /\ DiffIdle /\ BatchIdle /\ TokIdle /\
    CodecIdle /\ FileIdle /\ WebIdle /\ RmIdle /\ ExecIdle /\ DefIdle /\ EnumIdle /\
    CmdsIdle /\ SendIdle

SyncRestIdle == UpdIdle /\ IntrIdle /\ ReplIdle /\ DiffIdle /\ BatchIdle /\ TokIdle /\
    CodecIdle /\ FileIdle /\ WebIdle /\ RmIdle /\ ExecIdle /\ DefIdle /\ EnumIdle /\
    CmdsIdle /\ SendIdle

DiffRestIdle == UpdIdle /\ IntrIdle /\ ReplIdle /\ SyncIdle /\ BatchIdle /\ TokIdle /\
    CodecIdle /\ FileIdle /\ WebIdle /\ RmIdle /\ ExecIdle /\ DefIdle /\ EnumIdle /\
    CmdsIdle /\ SendIdle

BatchRestIdle == UpdIdle /\ IntrIdle /\ ReplIdle /\ SyncIdle /\ DiffIdle /\ TokIdle /\
    CodecIdle /\ FileIdle /\ WebIdle /\ RmIdle /\ ExecIdle /\ DefIdle /\ EnumIdle /\
    CmdsIdle /\ SendIdle

TokRestIdle == UpdIdle /\ IntrIdle /\ ReplIdle /\ SyncIdle /\ DiffIdle /\ BatchIdle /\
    CodecIdle /\ FileIdle /\ WebIdle /\ RmIdle /\ ExecIdle /\ DefIdle /\ EnumIdle /\
    CmdsIdle /\ SendIdle

CodecRestIdle == UpdIdle /\ IntrIdle /\ ReplIdle /\ SyncIdle /\ DiffIdle /\ BatchIdle /\
    TokIdle /\ FileIdle /\ WebIdle /\ RmIdle /\ ExecIdle /\ DefIdle /\ EnumIdle /\
    CmdsIdle /\ SendIdle

FileRestIdle == UpdIdle /\ IntrIdle /\ ReplIdle /\ SyncIdle /\ DiffIdle /\ BatchIdle /\
    TokIdle /\ CodecIdle /\ WebIdle /\ RmIdle /\ ExecIdle /\ DefIdle /\ EnumIdle /\
    CmdsIdle /\ SendIdle

WebRestIdle == UpdIdle /\ IntrIdle /\ ReplIdle /\ SyncIdle /\ DiffIdle /\ BatchIdle /\
    TokIdle /\ CodecIdle /\ FileIdle /\ RmIdle /\ ExecIdle /\ DefIdle /\ EnumIdle /\
    CmdsIdle /\ SendIdle

RmRestIdle == UpdIdle /\ IntrIdle /\ ReplIdle /\ SyncIdle /\ DiffIdle /\ BatchIdle /\
    TokIdle /\ CodecIdle /\ FileIdle /\ WebIdle /\ ExecIdle /\ DefIdle /\ EnumIdle /\
    CmdsIdle /\ SendIdle

ExecRestIdle == UpdIdle /\ IntrIdle /\ ReplIdle /\ SyncIdle /\ DiffIdle /\ BatchIdle /\
    TokIdle /\ CodecIdle /\ FileIdle /\ WebIdle /\ RmIdle /\ DefIdle /\ EnumIdle /\
    CmdsIdle /\ SendIdle

DefRestIdle == UpdIdle /\ IntrIdle /\ ReplIdle /\ SyncIdle /\ DiffIdle /\ BatchIdle /\
    TokIdle /\ CodecIdle /\ FileIdle /\ WebIdle /\ RmIdle /\ ExecIdle /\ EnumIdle /\
    CmdsIdle /\ SendIdle

EnumRestIdle == UpdIdle /\ IntrIdle /\ ReplIdle /\ SyncIdle /\ DiffIdle /\ BatchIdle /\
    TokIdle /\ CodecIdle /\ FileIdle /\ WebIdle /\ RmIdle /\ ExecIdle /\ DefIdle /\
    CmdsIdle /\ SendIdle

CmdsRestIdle == UpdIdle /\ IntrIdle /\ ReplIdle /\ SyncIdle /\ DiffIdle /\ BatchIdle /\
    TokIdle /\ CodecIdle /\ FileIdle /\ WebIdle /\ RmIdle /\ ExecIdle /\ DefIdle /\
    EnumIdle /\ SendIdle

SendRestIdle == UpdIdle /\ IntrIdle /\ ReplIdle /\ SyncIdle /\ DiffIdle /\ BatchIdle /\
    TokIdle /\ CodecIdle /\ FileIdle /\ WebIdle /\ RmIdle /\ ExecIdle /\ DefIdle /\
    EnumIdle /\ CmdsIdle

\* Length of the long run of 0xFF bytes in the file contents tried.
RunLen == 7

\* The small block_size tried beside the default.
SmallBlock == 3

\* The small block_transaction_limit tried beside the default.
SmallLimit == 2

DefaultBlockSize == 512

DefaultCommandLimit == 20

\* A content no file has: the name does not exist on the device.
NoFile == <<None>>

\* The file being updated, the name get_temp_file_name stats (its name is
\* not an f-string, so it is this literal for every prefix and i), and the
\* temp_path update_file opens: the printed name with print's line ending.
UPath == "foo"

StatName == "{prefix}.{i}"

TempName == "{prefix}.{i}\r\n"

UNames == {UPath, StatName, TempName}

LongRun == Rep(255, RunLen)

\* File contents tried: empty, one byte, and a long run of 0xFF with an
\* optional 0x00 before and after it.
UContents ==
  {<<>>, <<0>>} \cup {pre \o LongRun \o post : pre \in {<<>>, <<0>>}, post \in {<<>>, <<0>>}}

UpdInit ==
  /\ u_pc = "start"
  /\ u_old \in UContents
  /\ u_new \in UContents
  /\ u_safe \in BOOLEAN
  /\ \E cfg \in {<<SmallBlock, SmallLimit>>, <<DefaultBlockSize, DefaultCommandLimit>>} :
       u_bs = cfg[1] /\ u_lim = cfg[2]
  /\ \E c \in UContents \cup {NoFile}, st \in {NoFile, <<>>}, tmp \in {NoFile, <<0>>} :
       u_dev = [n \in UNames |-> IF n = UPath THEN c ELSE IF n = StatName THEN st ELSE tmp]
  /\ u_dev0 = u_dev
  /\ u_batches = <<>>
  /\ u_sess = [cursor |-> 0, hash |-> <<>>]
  /\ u_readhash = <<>>
  /\ UpdRestIdle

\* self._open_file(path, "rb", {"r": "read", "s": "seek"}, "fi"): the
\* device's OSError for a missing file is raised on the host.
UOpenIn ==
  /\ u_pc = "start"
  /\ u_pc' = IF u_dev[UPath] = NoFile THEN "OSError" ELSE "opened"
  /\ UNCHANGED updRest
  /\ UNCHANGED <<u_dev, u_dev0, u_old, u_new, u_safe, u_bs, u_lim, u_batches, u_sess,
                 u_readhash>>

\* get_temp_file_name(path): stats StatName until the stat fails, and never
\* changes the name it stats; when StatName exists it loops until the read
\* of raw_paste_exec times out (MicroPythonReplError).
UGetTempName ==
  /\ u_pc = "opened"
  /\ u_pc' = IF u_dev[StatName] = NoFile THEN "named" ELSE "ReplError"
  /\ UNCHANGED updRest
  /\ UNCHANGED <<u_dev, u_dev0, u_old, u_new, u_safe, u_bs, u_lim, u_batches, u_sess,
                 u_readhash>>

\* self._open_file(temp_path, "wb", {"w": "write"}, "fo"): creates or
\* truncates the temporary file.
UOpenOut ==
  /\ u_pc = "named"
  /\ u_dev' = [u_dev EXCEPT ![TempName] = <<>>]
  /\ u_pc' = "tempopen"
  /\ UNCHANGED updRest
  /\ UNCHANGED <<u_dev0, u_old, u_new, u_safe, u_bs, u_lim, u_batches, u_sess, u_readhash>>

\* The hasher set-up (if safe) and the planning of the patch: the batches
\* of batch_commands(data_to_update_commands(...)), and the bytes the hasher
\* callback fed to read_hash.
UPlan ==
  /\ u_pc = "tempopen"
  /\ u_batches' = BatchCommands(DataToUpdateCommands(u_old, u_new, u_bs), u_bs, u_lim)
  /\ u_readhash' = IF u_safe
                   THEN HostHashInput(UpdatePlan(u_old, u_new, u_bs), u_old)
                   ELSE <<>>
  /\ u_sess' = [cursor |-> 0, hash |-> <<>>]
  /\ u_pc' = "patching"
  /\ UNCHANGED updRest
  /\ UNCHANGED <<u_dev, u_dev0, u_old, u_new, u_safe, u_bs, u_lim>>

\* UExecBatch with w aliased to a write on path itself (a patch in place).
MutUExecBatchInPlace ==
  /\ u_pc = "patching"
  /\ u_batches # <<>>
  /\ LET d0 == [src |-> u_dev[UPath], cursor |-> u_sess.cursor,
                out |-> u_dev[TempName], hash |-> u_sess.hash]
         d1 == DevExecCmds(d0, Head(u_batches).cmds)
     IN  /\ u_dev' = [u_dev EXCEPT ![UPath] = d1.out]
         /\ u_sess' = [cursor |-> d1.cursor, hash |-> d1.hash]
  /\ u_batches' = Tail(u_batches)
  /\ UNCHANGED updRest
  /\ UNCHANGED <<u_pc, u_dev0, u_old, u_new, u_safe, u_bs, u_lim, u_readhash>>

\* raw_paste_exec(self._ser, commands) for the next batch: r and s act on
\* path, w appends to the temporary file.
UExecBatch ==
  /\ u_pc = "patching"
  /\ u_batches # <<>>
  /\ LET d0 == [src |-> u_dev[UPath], cursor |-> u_sess.cursor,
                out |-> u_dev[TempName], hash |-> u_sess.hash]
         d1 == DevExecCmds(d0, Head(u_batches).cmds)
     IN  /\ u_dev' = [u_dev EXCEPT ![TempName] = d1.out]
         /\ u_sess' = [cursor |-> d1.cursor, hash |-> d1.hash]
  /\ u_batches' = Tail(u_batches)
  /\ UNCHANGED updRest
  /\ UNCHANGED <<u_pc, u_dev0, u_old, u_new, u_safe, u_bs, u_lim, u_readhash>>

\* self._close_file("fi"); self._close_file("fo")
UClose ==
  /\ u_pc = "patching"
  /\ u_batches = <<>>
  /\ u_pc' = "closed"
  /\ UNCHANGED updRest
  /\ UNCHANGED <<u_dev, u_dev0, u_old, u_new, u_safe, u_bs, u_lim, u_batches, u_sess,
                 u_readhash>>

\* The integrity check: sha256 is taken to be collision free, so the digests
\* differ exactly when the hashed byte strings differ.
HashesDiffer(host_input, device_input) == host_input # device_input

\* UCheck without the comparison of the digests.
MutUCheckNoCompare ==
  /\ u_pc = "closed"
  /\ u_pc' = "verified"
  /\ UNCHANGED updRest
  /\ UNCHANGED <<u_dev, u_dev0, u_old, u_new, u_safe, u_bs, u_lim, u_batches, u_sess,
                 u_readhash>>

UCheck ==
  /\ u_pc = "closed"
  /\ u_pc' = IF u_safe /\ HashesDiffer(u_readhash, u_sess.hash) THEN "mismatch" ELSE "verified"
  /\ UNCHANGED updRest
  /\ UNCHANGED <<u_dev, u_dev0, u_old, u_new, u_safe, u_bs, u_lim, u_batches, u_sess,
                 u_readhash>>

\* URemoveTemp raising UpdateError without removing the temporary file.
MutURemoveTempKeepsFile ==
  /\ u_pc = "mismatch"
  /\ u_pc' = "UpdateError"
  /\ UNCHANGED updRest
  /\ UNCHANGED <<u_dev, u_dev0, u_old, u_new, u_safe, u_bs, u_lim, u_batches, u_sess,
                 u_readhash>>

\* self.remove_recursive(temp_path); raise UpdateError()
URemoveTemp ==
  /\ u_pc = "mismatch"
  /\ u_dev' = [u_dev EXCEPT ![TempName] = NoFile]
  /\ u_pc' = "UpdateError"
  /\ UNCHANGED updRest
  /\ UNCHANGED <<u_dev0, u_old, u_new, u_safe, u_bs, u_lim, u_batches, u_sess, u_readhash>>

\* self.rename(temp_path, path): the device's rename replaces the target.
URename ==
  /\ u_pc = "verified"
  /\ u_dev' = [u_dev EXCEPT ![UPath] = u_dev[TempName], ![TempName] = NoFile]
  /\ u_pc' = "done"
  /\ UNCHANGED updRest
  /\ UNCHANGED <<u_dev0, u_old, u_new, u_safe, u_bs, u_lim, u_batches, u_sess, u_readhash>>

UTerminal == {"done", "OSError", "UpdateError", "ReplError", "aborted"}

\* Any round trip to the device can fail (a connection error, a timeout, a
\* failed assertion on the reply): the exception leaves update_file at once.
UAbort ==
  /\ u_pc \notin UTerminal
  /\ u_pc' = "aborted"
  /\ UNCHANGED updRest
  /\ UNCHANGED <<u_dev, u_dev0, u_old, u_new, u_safe, u_bs, u_lim, u_batches, u_sess,
                 u_readhash>>

UpdNext ==
  \/ UOpenIn
  \/ UGetTempName
  \/ UOpenOut
  \/ UPlan
  \/ UExecBatch
  \/ UClose
  \/ UCheck
  \/ URemoveTemp
  \/ URename
  \/ UAbort

SpecUpdate == UpdInit /\ [][UpdNext]_vars

\* update_file as one operation on a device file holding content: the
\* exception it raises ("ok" if none) and the content of path afterwards.
UpdateFileResult(content, old_content, new_content, block_size, limit, safe) ==
  LET plan == UpdatePlan(old_content, new_content, block_size)
      batches == BatchCommands(PlanToCmds(plan, new_content, block_size, 0), block_size, limit)
      d == DevExecBatches([src |-> content, cursor |-> 0, out |-> <<>>, hash |-> <<>>], batches)
  IN  IF safe /\ HashesDiffer(HostHashInput(plan, old_content), d.hash)
      THEN [status |-> "UpdateError", content |-> content]
      ELSE [status |-> "ok", content |-> d.out]

\* ========================================================================
\* The token file codec (sync.py)
\* ========================================================================

\* str(n) as ASCII digits, n >= 0
RECURSIVE DecDigits(_)
DecDigits(n) == IF n < 10 THEN <<48 + n>> ELSE Append(DecDigits(n \div 10), 48 + (n % 10))

\* f"{version:03d}": zero padded to three characters, longer if need be; the
\* sign of a negative number counts towards the width.
Format03d(version) ==
  IF version < 0
  THEN <<45>> \o Rep(48, 2 - DecLen(0 - version)) \o DecDigits(0 - version)
  ELSE Rep(48, 3 - DecLen(version)) \o DecDigits(version)

\* encode_upyt_id with the version written without padding: f"{version}"
MutEncodeUpytIdNoPadding(version, device_id) ==
  DecDigits(version) \o <<32>> \o device_id

\* encode_upyt_id
EncodeUpytId(version, device_id) == Format03d(version) \o <<32>> \o device_id

\* str.split(" "): the pieces between single spaces
RECURSIVE SplitSpace(_, _)
SplitSpace(s, cur) ==
  IF s = <<>> THEN <<cur>>
  ELSE IF Head(s) = 32 THEN <<cur>> \o SplitSpace(Tail(s), <<>>)
  ELSE SplitSpace(Tail(s), Append(cur, Head(s)))

\* The characters str.strip() and int() treat as white space, among ASCII.
AsciiSpace == {9, 10, 11, 12, 13, 28, 29, 30, 31, 32}

RECURSIVE LStrip(_)
LStrip(s) == IF s # <<>> /\ Head(s) \in AsciiSpace THEN LStrip(Tail(s)) ELSE s

RECURSIVE RStrip(_)
RStrip(s) ==
  IF s # <<>> /\ s[Len(s)] \in AsciiSpace THEN RStrip(SubSeq(s, 1, Len(s) - 1)) ELSE s

IsDigit(b) == b >= 48 /\ b <= 57

\* Digits with single underscores between them: the body of an int literal.
IntBodyOk(s) ==
  /\ s # <<>>
  /\ \A k \in 1 .. Len(s) : IsDigit(s[k]) \/ s[k] = 95
  /\ IsDigit(s[1])
  /\ IsDigit(s[Len(s)])
  /\ \A k \in 1 .. Len(s) - 1 : ~(s[k] = 95 /\ s[k + 1] = 95)

RECURSIVE DigitsValue(_, _)
DigitsValue(s, acc) ==
  IF s = <<>> THEN acc
  ELSE IF Head(s) = 95 THEN DigitsValue(Tail(s), acc)
  ELSE DigitsValue(Tail(s), acc * 10 + (Head(s) - 48))

\* int(text): white space around, an optional sign, the digits.
ParseInt(text) ==
  LET t == RStrip(LStrip(text))
      signed == t # <<>> /\ Head(t) \in {43, 45}
      body == IF signed THEN Tail(t) ELSE t
  IN  IF IntBodyOk(body)
      THEN [ok |-> TRUE, v |-> IF signed /\ Head(t) = 45 THEN 0 - DigitsValue(body, 0)
                               ELSE DigitsValue(body, 0)]
      ELSE [ok |-> FALSE, v |-> 0]

\* decode_upyt_id: ok = FALSE stands for the ValueError (a non-ASCII byte,
\* not exactly two fields, a version int() rejects).
DecodeUpytId(content) ==
  LET parts == SplitSpace(content, <<>>)
      bad == [ok |-> FALSE, version |-> 0, device_id |-> <<>>]
  IN  IF \E k \in 1 .. Len(content) : content[k] >= 128 THEN bad
      ELSE IF Len(parts) # 2 THEN bad
      ELSE IF ~ParseInt(parts[1]).ok THEN bad
      ELSE [ok |-> TRUE, version |-> ParseInt(parts[1]).v, device_id |-> parts[2]]

\* ========================================================================
\* interrupt_and_enter_repl (upy_repl.py)
\* ========================================================================

\* "%x" % n
RECURSIVE HexDigits(_)
HexDigits(n) ==
  LET d == n % 16
      c == IF d < 10 THEN 48 + d ELSE 87 + d
  IN  IF n < 16 THEN <<c>> ELSE Append(HexDigits(n \div 16), c)

ETX == 3

\* b"\r\n>>> "
Prompt == <<13, 10, 62, 62, 62, 32>>

\* b"0x%x\r" % random_number
ProbeText(n) == <<48, 120>> \o HexDigits(n) \o <<13>>

\* b"0x%x\r\n%d\r\n>>> " % (random_number, random_number)
ExpectedResponse(n) ==
  <<48, 120>> \o HexDigits(n) \o <<13, 10>> \o DecDigits(n) \o <<13, 10>> \o <<62, 62, 62, 32>>

\* bytes.endswith
EndsWith(s, value) ==
  Len(s) >= Len(value) /\ SubSeq(s, Len(s) - Len(value) + 1, Len(s)) = value

\* conn.read_until(value) with buf waiting: the bytes up to the first place
\* where what was read ends with value, or all of buf when the timeout
\* comes first.
ReadUntil(buf, value) ==
  LET ends == {k \in 1 .. Len(buf) : EndsWith(SubSeq(buf, 1, k), value)}
      k == IF ends = {} THEN Len(buf) ELSE CHOOSE x \in ends : \A y \in ends : x <= y
  IN  [data |-> SubSeq(buf, 1, k), rest |-> SubSeq(buf, k + 1, Len(buf))]

\* expect_endswith: ok = FALSE is the MicroPythonReplError, whose argument
\* is data.
ExpectEndswith(buf, value) ==
  LET r == ReadUntil(buf, value)
  IN  [ok |-> EndsWith(r.data, value), data |-> r.data, rest |-> r.rest]

\* s[:-n]
DropLast(s, n) == SubSeq(s, 1, Len(s) - n)

\* Most attempts tried.
MaxAttempts == 2

\* The values random.randint gives are taken to differ between attempts.
ProbeValues == 16 .. (15 + MaxAttempts)

\* Timeouts, in tenths of a second: the connection's own (1.0 s for a
\* SerialConnection, 5.0 s by default for a WebReplConnection) and the
\* override.
DefaultTimeout == 10

WebReplTimeout == 50

InterruptTimeout == 1

\* Output that contains no prompt (a traceback, say).
Junk == <<75>>

IntrInit ==
  /\ i_pc = "start"
  /\ i_num_attempts \in 0 .. MaxAttempts
  /\ i_attempt = 0
  /\ i_n = 0
  /\ i_used = {}
  /\ i_unmatched = <<>>
  /\ i_log = <<>>
  /\ i_stale = 0
  /\ i_timeout \in {DefaultTimeout, WebReplTimeout}
  /\ i_timeout0 = i_timeout
  /\ i_in \in {<<>>, Prompt, Junk}
  /\ i_late \in {<<>>, Prompt, Junk \o Prompt}
  /\ i_dev \in {"busy2", "busy", "prompt", "dead"}
  /\ i_pend = <<>>
  /\ IntrRestIdle

Event(e, data) == [e |-> e, data |-> data]

\* unmatched_output = conn.read_buffered(), then the timeout is overridden.
IBegin ==
  /\ i_pc = "start"
  /\ i_unmatched' = i_in
  /\ i_log' = Append(i_log, Event("flush", i_in))
  /\ i_in' = <<>>
  /\ i_timeout' = InterruptTimeout
  /\ i_pc' = "loop"
  /\ UNCHANGED <<i_num_attempts, i_attempt, i_n, i_used, i_stale, i_timeout0, i_late,
                 i_dev, i_pend>>
  /\ UNCHANGED intrRest

\* The next attempt begins: conn.write(b"\x03").
IWriteEtx ==
  /\ i_pc = "loop"
  /\ i_attempt < i_num_attempts
  /\ i_attempt' = i_attempt + 1
  /\ i_log' = Append(i_log, Event("etx", <<ETX>>))
  /\ i_pend' = Append(i_pend, [k |-> "etx", n |-> 0])
  /\ i_pc' = "wait_prompt"
  /\ UNCHANGED <<i_num_attempts, i_n, i_used, i_unmatched, i_stale, i_timeout, i_timeout0,
                 i_in, i_late, i_dev>>
  /\ UNCHANGED intrRest

\* A version of IExpectPrompt that trusts the prompt: it returns once a
\* prompt was read, without the probe.
MutIExpectPromptTrusts ==
  /\ i_pc = "wait_prompt"
  /\ LET r == ExpectEndswith(i_in, Prompt)
     IN  /\ i_in' = r.rest
         /\ i_log' = Append(i_log, Event(IF r.ok THEN "prompt" ELSE "noprompt", r.data))
         /\ i_unmatched' = i_unmatched \o (IF r.ok THEN DropLast(r.data, Len(Prompt)) ELSE r.data)
         /\ i_pc' = IF r.ok THEN "returned" ELSE "loop"
         /\ i_timeout' = IF r.ok THEN i_timeout0 ELSE i_timeout
  /\ UNCHANGED <<i_num_attempts, i_attempt, i_n, i_used, i_stale, i_timeout0,
                 i_late, i_dev, i_pend>>
  /\ UNCHANGED intrRest

\* expect_endswith(conn, prompt): what was read before the prompt joins
\* unmatched_output; with no prompt, all that was read does and the
\* attempt is over.
IExpectPrompt ==
  /\ i_pc = "wait_prompt"
  /\ LET r == ExpectEndswith(i_in, Prompt)
     IN  /\ i_in' = r.rest
         /\ i_log' = Append(i_log, Event(IF r.ok THEN "prompt" ELSE "noprompt", r.data))
         /\ i_unmatched' = i_unmatched \o (IF r.ok THEN DropLast(r.data, Len(Prompt)) ELSE r.data)
         /\ i_pc' = IF r.ok THEN "probe" ELSE "loop"
         /\ i_timeout' = i_timeout
  /\ UNCHANGED <<i_num_attempts, i_attempt, i_n, i_used, i_stale, i_timeout0,
                 i_late, i_dev, i_pend>>
  /\ UNCHANGED intrRest

\* random_number is drawn and conn.write(b"0x%x\r" % random_number).
IWriteProbe ==
  /\ i_pc = "probe"
  /\ \E n \in ProbeValues \ i_used :
       /\ i_n' = n
       /\ i_used' = i_used \cup {n}
       /\ i_log' = Append(i_log, Event("probe", ProbeText(n)))
       /\ i_pend' = Append(i_pend, [k |-> "probe", n |-> n])
  /\ i_stale' = Len(i_in) + Len(i_late)
  /\ i_pc' = "wait_resp"
  /\ UNCHANGED <<i_num_attempts, i_attempt, i_unmatched, i_timeout, i_timeout0, i_in,
                 i_late, i_dev>>
  /\ UNCHANGED intrRest

\* A version of IExpectResponse that forgets what a failed read returned.
MutIExpectResponseForgets ==
  /\ i_pc = "wait_resp"
  /\ LET r == ExpectEndswith(i_in, ExpectedResponse(i_n))
     IN  /\ i_in' = r.rest
         /\ i_log' = Append(i_log, Event(IF r.ok THEN "resp" ELSE "noresp", r.data))
         /\ i_unmatched' = i_unmatched \o
              (IF r.ok THEN DropLast(r.data, Len(ExpectedResponse(i_n))) ELSE <<>>)
         /\ i_pc' = IF r.ok THEN "returned" ELSE "loop"
         /\ i_timeout' = IF r.ok THEN i_timeout0 ELSE i_timeout
  /\ UNCHANGED <<i_num_attempts, i_attempt, i_n, i_used, i_stale, i_timeout0, i_late,
                 i_dev, i_pend>>
  /\ UNCHANGED intrRest

\* expect_endswith(conn, expected_response): on a match the call returns
\* unmatched_output (and the with block restores the timeout); otherwise
\* what was read joins unmatched_output and the attempt is over.
IExpectResponse ==
  /\ i_pc = "wait_resp"
  /\ LET r == ExpectEndswith(i_in, ExpectedResponse(i_n))
     IN  /\ i_in' = r.rest
         /\ i_log' = Append(i_log, Event(IF r.ok THEN "resp" ELSE "noresp", r.data))
         /\ i_unmatched' = i_unmatched \o
              (IF r.ok THEN DropLast(r.data, Len(ExpectedResponse(i_n))) ELSE r.data)
         /\ i_pc' = IF r.ok THEN "returned" ELSE "loop"
         /\ i_timeout' = IF r.ok THEN i_timeout0 ELSE i_timeout
  /\ UNCHANGED <<i_num_attempts, i_attempt, i_n, i_used, i_stale, i_timeout0, i_late,
                 i_dev, i_pend>>
  /\ UNCHANGED intrRest

\* NoReplError leaving a scope that does not restore the timeout.
MutIGiveUpKeepsOverride ==
  /\ i_pc = "loop"
  /\ i_attempt >= i_num_attempts
  /\ i_pc' = "NoReplError"
  /\ UNCHANGED <<i_num_attempts, i_attempt, i_n, i_used, i_unmatched, i_log, i_stale,
                 i_timeout, i_timeout0, i_in, i_late, i_dev, i_pend>>
  /\ UNCHANGED intrRest

\* Ran out of retries: raise NoReplError(unmatched_output); the with block
\* restores the timeout on the way out.
IGiveUp ==
  /\ i_pc = "loop"
  /\ i_attempt >= i_num_attempts
  /\ i_pc' = "NoReplError"
  /\ i_timeout' = i_timeout0
  /\ UNCHANGED <<i_num_attempts, i_attempt, i_n, i_used, i_unmatched, i_log, i_stale,
                 i_timeout0, i_in, i_late, i_dev, i_pend>>
  /\ UNCHANGED intrRest

\* The device handles the next thing the host wrote. An ETX stops a running
\* program, whose traceback and a prompt follow ("busy2": the program's
\* handler blocks too and takes a second ETX); at the prompt an ETX gives a
\* new prompt and a probe its echo, its value and a prompt. A running
\* program swallows a probe.
IDevReact ==
  /\ i_pend # <<>>
  /\ i_dev # "dead"
  /\ LET h == Head(i_pend)
     IN  /\ i_dev' = IF h.k = "etx" THEN (IF i_dev = "busy2" THEN "busy" ELSE "prompt")
                     ELSE i_dev
         /\ i_late' = i_late \o
              (IF h.k = "etx"
               THEN (IF i_dev = "busy2" THEN <<>>
                     ELSE IF i_dev = "busy" THEN Junk \o Prompt ELSE Prompt)
               ELSE (IF i_dev = "prompt" THEN ExpectedResponse(h.n) ELSE <<>>))
  /\ i_pend' = Tail(i_pend)
  /\ UNCHANGED <<i_pc, i_num_attempts, i_attempt, i_n, i_used, i_unmatched, i_log, i_stale,
                 i_timeout, i_timeout0, i_in>>
  /\ UNCHANGED intrRest

\* The bytes on their way reach the host.
IDevDeliver ==
  /\ i_late # <<>>
  /\ i_in' = i_in \o i_late
  /\ i_late' = <<>>
  /\ UNCHANGED <<i_pc, i_num_attempts, i_attempt, i_n, i_used, i_unmatched, i_log, i_stale,
                 i_timeout, i_timeout0, i_dev, i_pend>>
  /\ UNCHANGED intrRest

\* The steps of the host: each ends by itself, a read at the latest when
\* its timeout expires.
IntrHost == IBegin \/ IWriteEtx \/ IExpectPrompt \/ IWriteProbe \/ IExpectResponse \/ IGiveUp

IntrNext ==
  \/ IBegin
  \/ IWriteEtx
  \/ IExpectPrompt
  \/ IWriteProbe
  \/ IExpectResponse
  \/ IGiveUp
  \/ IDevReact
  \/ IDevDeliver

SpecIntr == IntrInit /\ [][IntrNext]_vars /\ WF_vars(IntrHost)

\* ========================================================================
\* raw_mode and raw_paste_exec (upy_repl.py)
\* ========================================================================

SOH == 1

STX == 2

EOT == 4

\* str.encode("utf-8") of a string of code points below 0x800
RECURSIVE Utf8(_)
Utf8(code) ==
  IF code = <<>> THEN <<>>
  ELSE (IF Head(code) < 128 THEN <<Head(code)>>
        ELSE <<192 + (Head(code) \div 64), 128 + (Head(code) % 64)>>) \o Utf8(Tail(code))

\* Longest code string tried, in characters, and its characters: "a",
\* Ctrl+D and the pound sign.
MaxCode == 2

CodeChars == {97, 4, 163}

Codes == SeqsUpTo(CodeChars, MaxCode)

\* Largest window size the device advertises here, most 0x01 bytes one
\* call is let read, and most raw_paste_exec calls in one scope.
MaxW == 2

MaxAcks == 3

MaxExecs == 2

\* What one conn.read(1) can give: 0x01, 0x04, or 0 for anything else (no
\* byte at all when the timeout expires, or another byte).
Replies == {SOH, EOT, 0}

ReplInit ==
  /\ r_pc = "start"
  /\ r_dev \in {"friendly", "raw", "busy"}
  /\ r_out = <<>>
  /\ r_exc = "none"
  /\ r_execs = 0
  /\ p_pc = "idle" /\ p_code0 = <<>> /\ p_code = <<>> /\ p_W = 0 /\ p_window = 0
  /\ p_acks = 0 /\ p_result = "none" /\ p_outputs = <<>> /\ p_args = <<>>
  /\ ReplRestIdle

pasteVars == <<p_pc, p_code0, p_code, p_W, p_window, p_acks, p_result, p_outputs, p_args>>

\* conn.write(b"\x01"), before the banner is awaited and before the try.
REnter ==
  /\ r_pc = "start"
  /\ r_out' = Append(r_out, SOH)
  /\ r_pc' = "banner"
  /\ UNCHANGED <<r_dev, r_exc, r_execs, pasteVars>>
  /\ UNCHANGED replRest

\* expect_endswith(conn, b"raw REPL; CTRL-B to exit\r\n>") reads the banner
\* of a device that took the SOH at a prompt: the scoped region begins.
RBannerOk ==
  /\ r_pc = "banner"
  /\ r_dev \in {"friendly", "raw"}
  /\ r_dev' = "raw"
  /\ r_pc' = "body"
  /\ UNCHANGED <<r_out, r_exc, r_execs, pasteVars>>
  /\ UNCHANGED replRest

\* The banner does not come in time: MicroPythonReplError leaves raw_mode
\* from outside its try. The device may have gone to raw mode all the same.
RBannerFail ==
  /\ r_pc = "banner"
  /\ r_dev' \in {r_dev} \cup (IF r_dev = "friendly" THEN {"raw"} ELSE {})
  /\ r_exc' = "MicroPythonReplError"
  /\ r_pc' = "enterfailed"
  /\ UNCHANGED <<r_out, r_execs, pasteVars>>
  /\ UNCHANGED replRest

\* The scoped region ends without an exception.
RBodyReturn ==
  /\ r_pc = "body" /\ p_pc = "idle"
  /\ r_pc' = "exit"
  /\ UNCHANGED <<r_dev, r_out, r_exc, r_execs, pasteVars>>
  /\ UNCHANGED replRest

\* The scoped region raises, and the scope has no finally clause.
MutRBodyRaiseNoFinally ==
  /\ r_pc = "body" /\ p_pc = "idle"
  /\ r_exc' = "Exception"
  /\ r_pc' = "left"
  /\ UNCHANGED <<r_dev, r_out, r_execs, pasteVars>>
  /\ UNCHANGED replRest

\* The scoped region raises an exception of its own between two calls.
RBodyRaise ==
  /\ r_pc = "body" /\ p_pc = "idle"
  /\ r_exc' = "Exception"
  /\ r_pc' = "exit"
  /\ UNCHANGED <<r_dev, r_out, r_execs, pasteVars>>
  /\ UNCHANGED replRest

\* finally: conn.write(b"\x04\x02")
RExitWrite ==
  /\ r_pc = "exit"
  /\ r_out' = r_out \o <<EOT, STX>>
  /\ r_pc' = "exitwait"
  /\ UNCHANGED <<r_dev, r_exc, r_execs, pasteVars>>
  /\ UNCHANGED replRest

\* expect_endswith(conn, b"\r\n>>> ") reads the prompt of a device that
\* left raw mode; an exception of the scoped region travels on.
RExitOk ==
  /\ r_pc = "exitwait"
  /\ r_dev = "raw"
  /\ r_dev' = "friendly"
  /\ r_pc' = "left"
  /\ UNCHANGED <<r_out, r_exc, r_execs, pasteVars>>
  /\ UNCHANGED replRest

\* The prompt does not come in time: MicroPythonReplError leaves the
\* finally clause in place of whatever was travelling.
RExitFail ==
  /\ r_pc = "exitwait"
  /\ r_exc' = "MicroPythonReplError"
  /\ r_pc' = "exitfailed"
  /\ UNCHANGED <<r_dev, r_out, r_execs, pasteVars>>
  /\ UNCHANGED replRest

\* raw_paste_exec raises exc: the call is over and the exception leaves
\* the scoped region.
PRaise(exc) ==
  /\ p_pc' = "idle"
  /\ p_result' = exc
  /\ r_exc' = exc
  /\ r_pc' = "exit"

\* raw_paste_exec(conn, code) begins: conn.write(b"\x05A\x01")
PStart ==
  /\ r_pc = "body" /\ p_pc = "idle"
  /\ r_execs < MaxExecs
  /\ r_execs' = r_execs + 1
  /\ \E code \in Codes : p_code0' = code
  /\ r_out' = r_out \o <<5, 65, SOH>>
  /\ p_code' = <<>> /\ p_W' = 0 /\ p_window' = 0 /\ p_acks' = 0 /\ p_result' = "none"
  /\ p_outputs' = <<>> /\ p_args' = <<>>
  /\ p_pc' = "hs"
  /\ UNCHANGED <<r_pc, r_dev, r_exc>>
  /\ UNCHANGED replRest

\* response = conn.read(2): b"R\x01" or not
PHandshake ==
  /\ p_pc = "hs"
  /\ \E ok \in BOOLEAN :
       IF ok THEN p_pc' = "win" /\ UNCHANGED <<p_result, r_exc, r_pc>>
       ELSE PRaise("RawPasteModeNotSupportedError")
  /\ UNCHANGED <<r_dev, r_out, r_execs, p_code0, p_code, p_W, p_window, p_acks>>
  /\ UNCHANGED <<p_outputs, p_args>>
  /\ UNCHANGED replRest

\* window_size_increment = struct.unpack("<H", conn.read(2))[0], and the
\* struct.error of a read that the timeout cut short
PReadWindow ==
  /\ p_pc = "win"
  /\ \/ \E w \in 0 .. MaxW :
          /\ p_W' = w /\ p_window' = w
          /\ p_pc' = "encode"
          /\ UNCHANGED <<p_result, r_exc, r_pc>>
     \/ PRaise("struct.error") /\ UNCHANGED <<p_W, p_window>>
  /\ UNCHANGED <<r_dev, r_out, r_execs, p_code0, p_code, p_acks>>
  /\ UNCHANGED <<p_outputs, p_args>>
  /\ UNCHANGED replRest

\* raw_paste_exec without the check for 0x04.
MutPEncodeChecksNothing ==
  /\ p_pc = "encode"
  /\ p_code' = Utf8(p_code0)
  /\ p_pc' = "loop" /\ UNCHANGED <<p_result, r_exc, r_pc>>
  /\ UNCHANGED <<r_dev, r_out, r_execs, p_code0, p_W, p_window, p_acks>>
  /\ UNCHANGED <<p_outputs, p_args>>
  /\ UNCHANGED replRest

\* code_utf8 = code.encode("utf-8"); ValueError if it holds a 0x04
PEncode ==
  /\ p_pc = "encode"
  /\ p_code' = Utf8(p_code0)
  /\ IF \E k \in 1 .. Len(Utf8(p_code0)) : Utf8(p_code0)[k] = EOT
     THEN PRaise("ValueError")
     ELSE p_pc' = "loop" /\ UNCHANGED <<p_result, r_exc, r_pc>>
  /\ UNCHANGED <<r_dev, r_out, r_execs, p_code0, p_W, p_window, p_acks>>
  /\ UNCHANGED <<p_outputs, p_args>>
  /\ UNCHANGED replRest

\* In the send loop with window_size == 0: response = conn.read(1)
PLoopRead ==
  /\ p_pc = "loop"
  /\ p_window = 0
  /\ p_acks < MaxAcks
  /\ \E response \in Replies :
       IF response = SOH
       THEN /\ p_window' = p_window + p_W
            /\ p_acks' = p_acks + 1
            /\ p_pc' = "write"
            /\ UNCHANGED <<p_result, r_exc, r_pc>>
       ELSE IF response = EOT
       THEN p_pc' = "eot" /\ UNCHANGED <<p_window, p_acks, p_result, r_exc, r_pc>>
       ELSE PRaise("MicroPythonReplError") /\ UNCHANGED <<p_window, p_acks>>
  /\ UNCHANGED <<r_dev, r_out, r_execs, p_code0, p_code, p_W>>
  /\ UNCHANGED <<p_outputs, p_args>>
  /\ UNCHANGED replRest

\* A version of PWrite that hands conn.write all of code_utf8, whatever
\* the window.
MutPWriteIgnoresWindow ==
  /\ \/ p_pc = "write"
     \/ p_pc = "loop" /\ p_window # 0 /\ p_code # <<>>
  /\ LET block == p_code
     IN  \E written \in (IF block = <<>> THEN {0} ELSE 1 .. Len(block)) :
           /\ r_out' = r_out \o SubSeq(block, 1, written)
           /\ p_code' = SubSeq(p_code, written + 1, Len(p_code))
           /\ p_window' = p_window - written
  /\ p_pc' = "loop"
  /\ UNCHANGED <<r_pc, r_dev, r_exc, r_execs, p_code0, p_W, p_acks, p_result>>
  /\ UNCHANGED <<p_outputs, p_args>>
  /\ UNCHANGED replRest

\* written = conn.write(code_utf8[:window_size]), which may take only part
\* of what it is given
PWrite ==
  /\ \/ p_pc = "write"
     \/ p_pc = "loop" /\ p_window # 0 /\ p_code # <<>>
  /\ LET block == PySlice(p_code, 0, p_window)
     IN  \E written \in (IF block = <<>> THEN {0} ELSE 1 .. Len(block)) :
           /\ r_out' = r_out \o SubSeq(block, 1, written)
           /\ p_code' = SubSeq(p_code, written + 1, Len(p_code))
           /\ p_window' = p_window - written
  /\ p_pc' = "loop"
  /\ UNCHANGED <<r_pc, r_dev, r_exc, r_execs, p_code0, p_W, p_acks, p_result>>
  /\ UNCHANGED <<p_outputs, p_args>>
  /\ UNCHANGED replRest

\* A send loop that runs only while code is left (while code_utf8:), so the
\* end of the code is written whatever the window.
MutPEotWithoutWindow ==
  /\ \/ p_pc = "eot"
     \/ p_pc = "loop" /\ p_code = <<>>
  /\ r_out' = Append(r_out, EOT)
  /\ p_pc' = "drain"
  /\ UNCHANGED <<r_pc, r_dev, r_exc, r_execs, p_code0, p_code, p_W, p_window, p_acks,
                 p_result>>
  /\ UNCHANGED <<p_outputs, p_args>>
  /\ UNCHANGED replRest

\* The send loop is over (nothing left to send and the window open, or the
\* device refused): conn.write(b"\x04")
PEot ==
  /\ \/ p_pc = "eot"
     \/ p_pc = "loop" /\ p_window # 0 /\ p_code = <<>>
  /\ r_out' = Append(r_out, EOT)
  /\ p_pc' = "drain"
  /\ UNCHANGED <<r_pc, r_dev, r_exc, r_execs, p_code0, p_code, p_W, p_window, p_acks,
                 p_result>>
  /\ UNCHANGED <<p_outputs, p_args>>
  /\ UNCHANGED replRest

\* After the end of the code: response = conn.read(1), a 0x01 is passed
\* over, a 0x04 ends the wait
PDrain ==
  /\ p_pc = "drain"
  /\ \E response \in Replies :
       IF response = SOH
       THEN /\ p_acks < MaxAcks
            /\ p_acks' = p_acks + 1
            /\ UNCHANGED <<p_pc, p_result, r_exc, r_pc>>
       ELSE IF response = EOT
       THEN p_pc' = "out" /\ UNCHANGED <<p_acks, p_result, r_exc, r_pc>>
       ELSE PRaise("MicroPythonReplError") /\ UNCHANGED p_acks
  /\ UNCHANGED <<r_dev, r_out, r_execs, p_code0, p_code, p_W, p_window>>
  /\ UNCHANGED <<p_outputs, p_args>>
  /\ UNCHANGED replRest

\* What the executed code can have printed, and what exception output it
\* can have left.
Outputs == {<<>>, <<111>>}

\* A version of POut whose SomeCodeNotSentError carries all of the code.
MutPOutCarriesAllCode ==
  /\ p_pc = "out"
  /\ \/ /\ \E code_output \in Outputs, exception_output \in Outputs :
             /\ p_outputs' = [code_output |-> code_output, exception_output |-> exception_output]
             /\ IF p_code = <<>>
                THEN /\ p_pc' = "idle" /\ p_result' = "returned"
                     /\ p_args' = <<code_output, exception_output>>
                     /\ UNCHANGED <<r_exc, r_pc>>
                ELSE /\ PRaise("SomeCodeNotSentError")
                     /\ p_args' = <<exception_output, code_output, Utf8(p_code0)>>
        /\ UNCHANGED r_dev
     \/ /\ PRaise("MicroPythonReplError")
        /\ r_dev' \in {r_dev, "busy"}
        /\ UNCHANGED <<p_outputs, p_args>>
  /\ UNCHANGED <<r_out, r_execs, p_code0, p_code, p_W, p_window, p_acks>>
  /\ UNCHANGED replRest

\* The output, the exception output and the ">" are read: the call returns
\* the two if all the code was sent and raises SomeCodeNotSentError with
\* the exception output, the output and the code left if not, or one of
\* the three reads fails. Code that does not end leaves the device busy.
POut ==
  /\ p_pc = "out"
  /\ \/ /\ \E code_output \in Outputs, exception_output \in Outputs :
             /\ p_outputs' = [code_output |-> code_output, exception_output |-> exception_output]
             /\ IF p_code = <<>>
                THEN /\ p_pc' = "idle" /\ p_result' = "returned"
                     /\ p_args' = <<code_output, exception_output>>
                     /\ UNCHANGED <<r_exc, r_pc>>
                ELSE /\ PRaise("SomeCodeNotSentError")
                     /\ p_args' = <<exception_output, code_output, p_code>>
        /\ UNCHANGED r_dev
     \/ /\ PRaise("MicroPythonReplError")
        /\ r_dev' \in {r_dev, "busy"}
        /\ UNCHANGED <<p_outputs, p_args>>
  /\ UNCHANGED <<r_out, r_execs, p_code0, p_code, p_W, p_window, p_acks>>
  /\ UNCHANGED replRest

ReplNext ==
  \/ REnter
  \/ RBannerOk
  \/ RBannerFail
  \/ RBodyReturn
  \/ RBodyRaise
  \/ RExitWrite
  \/ RExitOk
  \/ RExitFail
  \/ PStart
  \/ PHandshake
  \/ PReadWindow
  \/ PEncode
  \/ PLoopRead
  \/ PWrite
  \/ PEot
  \/ PDrain
  \/ POut

SpecRepl == ReplInit /\ [][ReplNext]_vars

\* ========================================================================
\* sync_to_device (sync.py)
\* ========================================================================

\* UPYT_ID_FILENAME
TOKEN == ".upyt_id.txt"

\* The paths tried, relative to host_dir, cache_dir and device_dir, in the
\* order sorted() gives them, and the parent of each ("" is the root).
SOrder == <<TOKEN, "a", "a/b">>

SPaths == {SOrder[k] : k \in 1 .. Len(SOrder)}

Parent(path) == IF path = "a/b" THEN "a" ELSE ""

\* What a tree holds at a path: nothing, a directory, or a file of bytes.
Absent == [t |-> "absent", c |-> <<>>]

DirEntry == [t |-> "dir", c |-> <<>>]

FileEntry(content) == [t |-> "file", c |-> content]

EmptyTree == [path \in SPaths |-> Absent]

ParentIsDir(tree, path) == Parent(path) = "" \/ tree[Parent(path)].t = "dir"

\* shutil.rmtree / unlink on the host, remove_recursive on the device:
\* path and all below it are gone.
RemoveTree(tree, path) ==
  [q \in SPaths |-> IF q = path \/ Parent(q) = path THEN Absent ELSE tree[q]]

\* FilesystemAPI.get_type
GetType(tree, path) == tree[path].t

\* The device's mkdir(path, False, True): os.mkdir, any OSError ignored.
DevMkdirExistOk(tree, path) ==
  IF tree[path] = Absent /\ ParentIsDir(tree, path)
  THEN [tree EXCEPT ![path] = DirEntry]
  ELSE tree

\* write_file: open(path, "wb") raises OSError unless path can be a file
\* there; then the blocks of data_to_writes are written.
DevWriteFile(tree, path, content) ==
  IF ParentIsDir(tree, path) /\ tree[path].t # "dir"
  THEN [ok |-> TRUE,
        tree |-> [tree EXCEPT ![path] = FileEntry(
                   DevExecCmds([src |-> <<>>, cursor |-> 0, out |-> <<>>, hash |-> <<>>],
                               DataToWrites(content, DefaultBlockSize)).out)]]
  ELSE [ok |-> FALSE, tree |-> tree]

\* Largest version a token file starts with.
MaxVer == 1

\* The device_id of the tokens that exist at the start, and the one a
\* device without a valid token is given.
IdA == Rep(65, 12)

NewIds == {Rep(66, 12)}

\* File contents tried: empty, a long run of 0xFF, and the run with a 0x00
\* after it.
SContents == {<<>>, LongRun, LongRun \o <<0>>}

\* The shapes of a tree below its root, the token file apart: "a" is
\* missing, a file, or a directory in which "a/b" is missing or a file.
SShapes ==
  {[a |-> Absent, b |-> Absent], [a |-> FileEntry(LongRun), b |-> Absent]}
  \cup {[a |-> DirEntry, b |-> e] : e \in {Absent} \cup {FileEntry(c) : c \in SContents}}

MkTree(token, shape) ==
  [path \in SPaths |-> IF path = TOKEN THEN token ELSE IF path = "a" THEN shape.a ELSE shape.b]

\* The token on a device that has one, and the tokens a cache can hold.
DeviceToken == FileEntry(EncodeUpytId(MaxVer, IdA))

CacheTokens == {FileEntry(EncodeUpytId(v, IdA)) : v \in 0 .. MaxVer}

\* The files named like the token file that the host tree can hold: a copy
\* of this device's token, or of another device's.
IdH == Rep(67, 12)

HostTokens == {FileEntry(EncodeUpytId(0, id)) : id \in {IdA, IdH}}

\* The host tree may hold a file named like the token file; the device's
\* token file may be missing or unreadable; the cache directory of a
\* device_id never seen before does not exist yet.
SyncInit ==
  /\ s_pc = "start"
  /\ \E tok \in {Absent} \cup HostTokens, sh \in SShapes :
       s_host = MkTree(tok, sh)
  /\ \E tok \in {Absent, FileEntry(<<>>), DeviceToken}, sh \in SShapes :
       s_dev = MkTree(tok, sh)
  /\ IF s_dev[TOKEN] = DeviceToken
     THEN \E tok \in {Absent} \cup CacheTokens, sh \in SShapes : s_cache = MkTree(tok, sh)
     ELSE s_cache = EmptyTree
  /\ s_dev0 = s_dev
  /\ s_cache0 = s_cache
  /\ s_fe \in BOOLEAN
  /\ s_fs \in BOOLEAN
  /\ s_version = 0 /\ s_version_remote = 0 /\ s_device_id = <<>> /\ s_cache_version = None
  /\ s_ood = FALSE /\ s_to_update = {} /\ s_i = 0
  /\ SyncRestIdle

\* The token a tree holds, decoded; ok = FALSE when there is none to read
\* (OSError) or it does not parse (ValueError).
ReadToken(tree) ==
  IF tree[TOKEN].t = "file" THEN DecodeUpytId(tree[TOKEN].c)
  ELSE [ok |-> FALSE, version |-> 0, device_id |-> <<>>]

\* get_upyt_id, then the cache directory of that device_id is looked up
\* and its version compared.
SIdentity ==
  /\ s_pc = "start"
  /\ LET remote == ReadToken(s_dev)
         cached == ReadToken(s_cache)
         cache_version == IF cached.ok THEN cached.version ELSE None
     IN  /\ IF remote.ok
            THEN /\ s_version' = remote.version
                 /\ s_device_id' = remote.device_id
                 /\ s_dev' = s_dev
            ELSE \E id \in NewIds :
                   /\ s_version' = 0
                   /\ s_device_id' = id
                   /\ s_dev' = DevWriteFile(s_dev, TOKEN, EncodeUpytId(0, id)).tree
         /\ s_version_remote' = s_version'
         /\ s_cache_version' = cache_version
         /\ s_ood' = (cache_version # s_version')
  /\ s_pc' = "identified"
  /\ UNCHANGED <<s_host, s_cache, s_dev0, s_cache0, s_fe, s_fs, s_to_update, s_i>>
  /\ UNCHANGED syncRest

\* version += 1 and the new token is written to the device.
SMarkDirty ==
  /\ s_pc = "identified"
  /\ s_version' = s_version + 1
  /\ s_dev' = DevWriteFile(s_dev, TOKEN, EncodeUpytId(s_version + 1, s_device_id)).tree
  /\ s_pc' = "marked"
  /\ UNCHANGED <<s_host, s_cache, s_dev0, s_cache0, s_fe, s_fs, s_version_remote,
                 s_device_id, s_cache_version, s_ood, s_to_update, s_i>>
  /\ UNCHANGED syncRest

\* The same write cut off after open(path, "wb"): the token file is left
\* empty and the exception ends the call.
SMarkDirtyTorn ==
  /\ s_pc = "identified"
  /\ s_version' = s_version + 1
  /\ s_dev' = [s_dev EXCEPT ![TOKEN] = FileEntry(<<>>)]
  /\ s_pc' = "aborted"
  /\ UNCHANGED <<s_host, s_cache, s_dev0, s_cache0, s_fe, s_fs, s_version_remote,
                 s_device_id, s_cache_version, s_ood, s_to_update, s_i>>
  /\ UNCHANGED syncRest

HostFiles(host) == {path \in SPaths : host[path] # Absent}

CachedFiles(cache) == {path \in SPaths : cache[path] # Absent}

\* A version of ToUpdate that believes the cache whatever its version.
MutToUpdateTrustsCache(host, cache, out_of_date_cache, force_enumerate_files) ==
  {path \in HostFiles(host) :
     \/ path \notin CachedFiles(cache)
     \/ (host[path].t = "file") # (cache[path].t = "file")
     \/ /\ host[path].t = "file" /\ cache[path].t = "file"
        /\ host[path].c # cache[path].c}

\* to_update
ToUpdate(host, cache, out_of_date_cache, force_enumerate_files) ==
  IF out_of_date_cache \/ force_enumerate_files
  THEN HostFiles(host)
  ELSE {path \in HostFiles(host) :
          \/ path \notin CachedFiles(cache)
          \/ (host[path].t = "file") # (cache[path].t = "file")
          \/ /\ host[path].t = "file" /\ cache[path].t = "file"
             /\ host[path].c # cache[path].c}

\* The cache without what the host no longer has, its token file kept.
PruneCache(host, cache) ==
  [path \in SPaths |->
     IF path \in CachedFiles(cache) \ HostFiles(host) /\ path # TOKEN THEN Absent
     ELSE cache[path]]

\* A version of NextAt whose loops do not test is_dir().
MutNextAtEitherKind(phase, i, host, to_update) ==
  LET mine == {k \in i .. Len(SOrder) : SOrder[k] \in to_update}
  IN  IF mine = {} THEN 0 ELSE CHOOSE k \in mine : \A j \in mine : k <= j

\* Where the two loops over sorted(to_update) stand: the first path from
\* position i on that the loop in phase handles, 0 if there is none.
NextAt(phase, i, host, to_update) ==
  LET mine == {k \in i .. Len(SOrder) :
                 /\ SOrder[k] \in to_update
                 /\ (host[SOrder[k]].t = "dir") = (phase = "dirs")}
  IN  IF mine = {} THEN 0 ELSE CHOOSE k \in mine : \A j \in mine : k <= j

\* The place the call goes on from after position i - 1 of phase.
GoOn(phase, i, host, to_update) ==
  IF phase = "dirs" /\ NextAt("dirs", i, host, to_update) # 0
  THEN [pc |-> "dirs", i |-> NextAt("dirs", i, host, to_update)]
  ELSE LET from == IF phase = "dirs" THEN 1 ELSE i
       IN  IF NextAt("files", from, host, to_update) # 0
           THEN [pc |-> "files", i |-> NextAt("files", from, host, to_update)]
           ELSE [pc |-> "commit", i |-> 0]

\* A version of SPlan that takes force_enumerate_files for False.
MutSPlanIgnoresForce ==
  /\ s_pc = "marked"
  /\ LET to_update == ToUpdate(s_host, s_cache, s_ood, FALSE)
     IN  /\ s_to_update' = to_update
         /\ s_pc' = GoOn("dirs", 1, s_host, to_update).pc
         /\ s_i' = GoOn("dirs", 1, s_host, to_update).i
  /\ s_cache' = PruneCache(s_host, s_cache)
  /\ UNCHANGED <<s_host, s_dev, s_dev0, s_cache0, s_fe, s_fs, s_version, s_version_remote,
                 s_device_id, s_cache_version, s_ood>>
  /\ UNCHANGED syncRest

\* host_files, cached_files and to_update are made and the cache is pruned.
SPlan ==
  /\ s_pc = "marked"
  /\ LET to_update == ToUpdate(s_host, s_cache, s_ood, s_fe)
     IN  /\ s_to_update' = to_update
         /\ s_pc' = GoOn("dirs", 1, s_host, to_update).pc
         /\ s_i' = GoOn("dirs", 1, s_host, to_update).i
  /\ s_cache' = PruneCache(s_host, s_cache)
  /\ UNCHANGED <<s_host, s_dev, s_dev0, s_cache0, s_fe, s_fs, s_version, s_version_remote,
                 s_device_id, s_cache_version, s_ood>>
  /\ UNCHANGED syncRest

\* A version of SDir that clears whatever the device has at the path
\* before making the directory.
MutSDirClearsDirectory ==
  /\ s_pc = "dirs"
  /\ LET path == SOrder[s_i]
         cleared == RemoveTree(s_dev, path)
     IN  /\ s_dev' = DevMkdirExistOk(cleared, path)
         /\ s_cache' = IF s_cache[path].t = "dir" THEN s_cache
                       ELSE [s_cache EXCEPT ![path] = DirEntry]
  /\ s_pc' = GoOn("dirs", s_i + 1, s_host, s_to_update).pc
  /\ s_i' = GoOn("dirs", s_i + 1, s_host, s_to_update).i
  /\ UNCHANGED <<s_host, s_dev0, s_cache0, s_fe, s_fs, s_version, s_version_remote,
                 s_device_id, s_cache_version, s_ood, s_to_update>>
  /\ UNCHANGED syncRest

\* One round of the first loop: a file in the way is removed from the
\* device, the directory is made there and in the cache.
SDir ==
  /\ s_pc = "dirs"
  /\ LET path == SOrder[s_i]
         cleared == IF GetType(s_dev, path) = "file" THEN RemoveTree(s_dev, path) ELSE s_dev
     IN  /\ s_dev' = DevMkdirExistOk(cleared, path)
         /\ s_cache' = IF s_cache[path].t = "dir" THEN s_cache
                       ELSE [s_cache EXCEPT ![path] = DirEntry]
  /\ s_pc' = GoOn("dirs", s_i + 1, s_host, s_to_update).pc
  /\ s_i' = GoOn("dirs", s_i + 1, s_host, s_to_update).i
  /\ UNCHANGED <<s_host, s_dev0, s_cache0, s_fe, s_fs, s_version, s_version_remote,
                 s_device_id, s_cache_version, s_ood, s_to_update>>
  /\ UNCHANGED syncRest

\* A version of SendFile without the except clause: the exception of
\* update_file ends the call.
MutSendFileWithoutFallback(dev, cache, host, path, safe) ==
  LET cleared == IF GetType(dev, path) = "dir" THEN RemoveTree(dev, path) ELSE dev
      result == UpdateFileResult(cleared[path].c, cache[path].c, host[path].c,
                                 DefaultBlockSize, DefaultCommandLimit, safe)
  IN  IF cache[path].t = "file" /\ cleared[path].t = "file" /\ result.status = "ok"
      THEN [ok |-> TRUE, tree |-> [cleared EXCEPT ![path] = FileEntry(result.content)]]
      ELSE [ok |-> FALSE, tree |-> cleared]

\* What one round of the second loop does to the device: a directory in
\* the way is removed; update_file patches the file from the cached copy;
\* when the cached copy cannot be read, the device has no such file, or
\* update_file raises UpdateError, write_file sends the whole file, and
\* its OSError ends the call.
SendFile(dev, cache, host, path, safe) ==
  LET cleared == IF GetType(dev, path) = "dir" THEN RemoveTree(dev, path) ELSE dev
      result == UpdateFileResult(cleared[path].c, cache[path].c, host[path].c,
                                 DefaultBlockSize, DefaultCommandLimit, safe)
  IN  IF cache[path].t = "file" /\ cleared[path].t = "file" /\ result.status = "ok"
      THEN [ok |-> TRUE, tree |-> [cleared EXCEPT ![path] = FileEntry(result.content)]]
      ELSE DevWriteFile(cleared, path, host[path].c)

\* A version of SFile that leaves the cache as it is.
MutSFileSkipsCache ==
  /\ s_pc = "files"
  /\ LET path == SOrder[s_i]
         sent == SendFile(s_dev, s_cache, s_host, path, s_ood \/ s_fs)
     IN  /\ s_dev' = sent.tree
         /\ IF sent.ok
            THEN /\ s_cache' = s_cache
                 /\ s_pc' = GoOn("files", s_i + 1, s_host, s_to_update).pc
                 /\ s_i' = GoOn("files", s_i + 1, s_host, s_to_update).i
            ELSE s_pc' = "OSError" /\ UNCHANGED <<s_cache, s_i>>
  /\ UNCHANGED <<s_host, s_dev0, s_cache0, s_fe, s_fs, s_version, s_version_remote,
                 s_device_id, s_cache_version, s_ood, s_to_update>>
  /\ UNCHANGED syncRest

\* One round of the second loop: the file is sent, then copied into the
\* cache in place of whatever was there.
SFile ==
  /\ s_pc = "files"
  /\ LET path == SOrder[s_i]
         sent == SendFile(s_dev, s_cache, s_host, path, s_ood \/ s_fs)
     IN  /\ s_dev' = sent.tree
         /\ IF sent.ok
            THEN /\ s_cache' = [RemoveTree(s_cache, path) EXCEPT ![path] = FileEntry(s_host[path].c)]
                 /\ s_pc' = GoOn("files", s_i + 1, s_host, s_to_update).pc
                 /\ s_i' = GoOn("files", s_i + 1, s_host, s_to_update).i
            ELSE s_pc' = "OSError" /\ UNCHANGED <<s_cache, s_i>>
  /\ UNCHANGED <<s_host, s_dev0, s_cache0, s_fe, s_fs, s_version, s_version_remote,
                 s_device_id, s_cache_version, s_ood, s_to_update>>
  /\ UNCHANGED syncRest

\* The token of the new version is written into the cache and the call
\* returns.
SCommit ==
  /\ s_pc = "commit"
  /\ s_cache' = [s_cache EXCEPT ![TOKEN] = FileEntry(EncodeUpytId(s_version, s_device_id))]
  /\ s_pc' = "done"
  /\ UNCHANGED <<s_host, s_dev, s_dev0, s_cache0, s_fe, s_fs, s_version, s_version_remote,
                 s_device_id, s_cache_version, s_ood, s_to_update, s_i>>
  /\ UNCHANGED syncRest

\* Any round trip to the device can fail, and the exception ends the call
\* where it stands.
SAbort ==
  /\ s_pc \in {"identified", "marked", "dirs", "files"}
  /\ s_pc' = "aborted"
  /\ UNCHANGED <<s_host, s_cache, s_dev, s_dev0, s_cache0, s_fe, s_fs, s_version,
                 s_version_remote, s_device_id, s_cache_version, s_ood, s_to_update, s_i>>
  /\ UNCHANGED syncRest

SyncNext ==
  \/ SIdentity
  \/ SMarkDirty
  \/ SMarkDirtyTorn
  \/ SPlan
  \/ SDir
  \/ SFile
  \/ SCommit
  \/ SAbort

SpecSync == SyncInit /\ [][SyncNext]_vars

\* ========================================================================
\* The diff planner (upy_fs.py): SequenceMatcher.get_opcodes, then
\* combine_sm_operations one loop iteration at a time
\* ========================================================================

\* Longest old_content and new_content tried.
MaxDiffLen == 4

\* The bytes they are made of.
DiffBytes == {97, 98}

\* The values of equal_overhead and of seek_overhead tried.
EqualOverheads == {-1, 0, 1, 8}

SeekOverheads == {0, 1, 5}

DiffInit ==
  /\ d_pc = "start"
  /\ d_old \in SeqsUpTo(DiffBytes, MaxDiffLen)
  /\ d_new \in SeqsUpTo(DiffBytes, MaxDiffLen)
  /\ d_eo \in EqualOverheads
  /\ d_so \in SeekOverheads
  /\ d_ops = <<>>
  /\ d_st = CombineStart
  /\ DiffRestIdle

\* SequenceMatcher(None, old_content, new_content).get_opcodes()
DOpcodes ==
  /\ d_pc = "start"
  /\ d_ops' = GetOpcodes(d_old, d_new)
  /\ d_pc' = "loop"
  /\ UNCHANGED <<d_old, d_new, d_eo, d_so, d_st>>
  /\ UNCHANGED diffRest

\* A version of DCombine that takes "replace" for a no-operation, as
\* "delete" is.
MutDCombineSkipsReplace ==
  /\ d_pc = "loop"
  /\ d_ops # <<>>
  /\ LET st == IF Head(d_ops).tag = "replace" THEN d_st
               ELSE CombineStep(d_st, Head(d_ops), d_eo, d_so)
     IN  /\ d_st' = st
         /\ d_pc' = IF st.ok THEN "loop" ELSE "AssertionError"
  /\ d_ops' = Tail(d_ops)
  /\ UNCHANGED <<d_old, d_new, d_eo, d_so>>
  /\ UNCHANGED diffRest

\* One iteration of the loop of combine_sm_operations; a failed sanity
\* check ends the run with AssertionError.
DCombine ==
  /\ d_pc = "loop"
  /\ d_ops # <<>>
  /\ LET st == CombineStep(d_st, Head(d_ops), d_eo, d_so)
     IN  /\ d_st' = st
         /\ d_pc' = IF st.ok THEN "loop" ELSE "AssertionError"
  /\ d_ops' = Tail(d_ops)
  /\ UNCHANGED <<d_old, d_new, d_eo, d_so>>
  /\ UNCHANGED diffRest

\* The loop is over: the pending operation, if real, is yielded.
DFlush ==
  /\ d_pc = "loop"
  /\ d_ops = <<>>
  /\ d_st' = [d_st EXCEPT !.out = CombineFlush(d_st)]
  /\ d_pc' = "done"
  /\ UNCHANGED <<d_old, d_new, d_eo, d_so, d_ops>>
  /\ UNCHANGED diffRest

DiffNext ==
  \/ DOpcodes
  \/ DCombine
  \/ DFlush

SpecDiff == DiffInit /\ [][DiffNext]_vars

\* ========================================================================
\* batch_commands (upy_fs.py), one loop iteration at a time
\* ========================================================================

\* Most commands in one input, and the largest of the two budgets tried.
MaxCmds == 3

MaxBudget == 2

\* The commands the inputs are made of: a seek, which writes nothing, and
\* two copies.
BatchInputs ==
  {Cmd("seek", <<>>, 0, 0), Cmd("copy", <<>>, 1, 1), Cmd("copy", <<>>, 2, 2)}

BatchInit ==
  /\ b_pc = "loop"
  /\ b_in \in SeqsUpTo(BatchInputs, MaxCmds)
  /\ b_bpb \in 0 .. MaxBudget
  /\ b_cpb \in 0 .. MaxBudget
  /\ b_rest = b_in
  /\ b_this = <<>>
  /\ b_bytes = 0
  /\ b_out = <<>>
  /\ BatchRestIdle

\* A version of BLoop that flushes on the byte budget alone.
MutBLoopCountsNoCommands ==
  /\ b_pc = "loop"
  /\ b_rest # <<>>
  /\ LET c == Head(b_rest)
         flush == b_bytes + c.n > b_bpb
     IN  IF flush
         THEN /\ b_out' = Append(b_out, Batch(b_this, b_bytes))
              /\ b_this' = <<c>>
              /\ b_bytes' = c.n
         ELSE /\ b_out' = b_out
              /\ b_this' = Append(b_this, c)
              /\ b_bytes' = b_bytes + c.n
  /\ b_rest' = Tail(b_rest)
  /\ UNCHANGED <<b_pc, b_in, b_bpb, b_cpb>>
  /\ UNCHANGED batchRest

\* One iteration of the loop: the batch is yielded and begun anew if the
\* command does not fit; the command joins the batch.
BLoop ==
  /\ b_pc = "loop"
  /\ b_rest # <<>>
  /\ LET c == Head(b_rest)
         flush == b_bytes + c.n > b_bpb \/ Len(b_this) + 1 > b_cpb
     IN  IF flush
         THEN /\ b_out' = Append(b_out, Batch(b_this, b_bytes))
              /\ b_this' = <<c>>
              /\ b_bytes' = c.n
         ELSE /\ b_out' = b_out
              /\ b_this' = Append(b_this, c)
              /\ b_bytes' = b_bytes + c.n
  /\ b_rest' = Tail(b_rest)
  /\ UNCHANGED <<b_pc, b_in, b_bpb, b_cpb>>
  /\ UNCHANGED batchRest

\* After the loop: the final batch is yielded if this_batch_bytes > 0.
BFinal ==
  /\ b_pc = "loop"
  /\ b_rest = <<>>
  /\ b_out' = IF b_bytes > 0 THEN Append(b_out, Batch(b_this, b_bytes)) ELSE b_out
  /\ b_pc' = "done"
  /\ UNCHANGED <<b_in, b_bpb, b_cpb, b_rest, b_this, b_bytes>>
  /\ UNCHANGED batchRest

BatchNext ==
  \/ BLoop
  \/ BFinal

SpecBatch == BatchInit /\ [][BatchNext]_vars

\* ========================================================================
\* get_upyt_id and the version written next (sync.py), whatever the
\* device's token file holds
\* ========================================================================

\* Longest content tried of those made of TokBytes: "9", " ", "A", a line
\* feed and a byte that is not ASCII.
MaxTokLen == 3

TokBytes == {57, 32, 65, 10, 255}

\* Whole tokens tried: well-formed ones, with the largest version of three
\* digits among them; a version of four digits; a line feed at the end; a
\* device_id that is not hexadecimal, and one too short.
WholeTokens ==
  {EncodeUpytId(v, IdA) : v \in {0, 7, 999, 1000}}
    \cup {EncodeUpytId(7, IdA) \o <<10>>, EncodeUpytId(7, Rep(90, 12)),
          EncodeUpytId(7, Rep(65, 11))}

TokInit ==
  /\ t_pc = "start"
  /\ t_file \in {NoFile} \cup SeqsUpTo(TokBytes, MaxTokLen) \cup WholeTokens
  /\ t_file0 = t_file
  /\ t_result = [version |-> 0, device_id |-> <<>>]
  /\ TokRestIdle

\* fs.read_file(filename): the content, or OSError when there is no file
TRead ==
  /\ t_pc = "start"
  /\ t_pc' = IF t_file = NoFile THEN "generate" ELSE "decode"
  /\ UNCHANGED <<t_file, t_file0, t_result>>
  /\ UNCHANGED tokRest

\* decode_upyt_id of what was read: its result is returned, or ValueError
\* is caught
TDecode ==
  /\ t_pc = "decode"
  /\ LET decoded == DecodeUpytId(t_file)
     IN  IF decoded.ok
         THEN /\ t_result' = [version |-> decoded.version, device_id |-> decoded.device_id]
              /\ t_pc' = "identified"
         ELSE /\ t_pc' = "generate"
              /\ UNCHANGED t_result
  /\ UNCHANGED <<t_file, t_file0>>
  /\ UNCHANGED tokRest

\* except (OSError, ValueError): a token of version 0 with a new device_id
\* is written and returned
TGenerate ==
  /\ t_pc = "generate"
  /\ \E id \in NewIds :
       /\ t_file' = EncodeUpytId(0, id)
       /\ t_result' = [version |-> 0, device_id |-> id]
  /\ t_pc' = "identified"
  /\ UNCHANGED t_file0
  /\ UNCHANGED tokRest

\* sync_to_device, back from get_upyt_id: version += 1 and the token is
\* written to the device
TMarkDirty ==
  /\ t_pc = "identified"
  /\ t_result' = [t_result EXCEPT !.version = @ + 1]
  /\ t_file' = EncodeUpytId(t_result.version + 1, t_result.device_id)
  /\ t_pc' = "marked"
  /\ UNCHANGED t_file0
  /\ UNCHANGED tokRest

TokNext ==
  \/ TRead
  \/ TDecode
  \/ TGenerate
  \/ TMarkDirty

SpecToken == TokInit /\ [][TokNext]_vars

\* ========================================================================
\* encode_upyt_id, then decode_upyt_id of its result (sync.py)
\* ========================================================================

\* Largest version tried: the versions of one, two and three digits and the
\* first ones of four.
MaxEncVersion == 1001

\* The device_ids tried: "AAAAAAAAAAAA", "1234567890aB" (of the tests),
\* "00000000000f", and two that are no device_id: one with a space in it,
\* one of eleven characters.
CodecIds ==
  {IdA,
   <<49, 50, 51, 52, 53, 54, 55, 56, 57, 48, 97, 66>>,
   Rep(48, 11) \o <<102>>,
   Rep(65, 5) \o <<32>> \o Rep(65, 6),
   Rep(65, 11)}

CodecInit ==
  /\ c_pc = "start"
  /\ c_version \in 0 .. MaxEncVersion
  /\ c_device_id \in CodecIds
  /\ c_encoded = <<>>
  /\ c_decoded = [ok |-> FALSE, version |-> 0, device_id |-> <<>>]
  /\ CodecRestIdle

\* encoded = encode_upyt_id(version, device_id)
CEncode ==
  /\ c_pc = "start"
  /\ c_encoded' = EncodeUpytId(c_version, c_device_id)
  /\ c_pc' = "encoded"
  /\ UNCHANGED <<c_version, c_device_id, c_decoded>>
  /\ UNCHANGED codecRest

\* decode_upyt_id(encoded)
CDecode ==
  /\ c_pc = "encoded"
  /\ c_decoded' = DecodeUpytId(c_encoded)
  /\ c_pc' = "decoded"
  /\ UNCHANGED <<c_version, c_device_id, c_encoded>>
  /\ UNCHANGED codecRest

CodecNext ==
  \/ CEncode
  \/ CDecode

SpecCodec == CodecInit /\ [][CodecNext]_vars

\* ========================================================================
\* write_file_raw and read_file_raw (upy_fs.py): the snippets on the wire
\* are text, a sequence of character codes
\* ========================================================================

\* "0123456789abcdef"
HexChars == <<48, 49, 50, 51, 52, 53, 54, 55, 56, 57, 97, 98, 99, 100, 101, 102>>

\* Value of a hexadecimal digit of either case; -1 for any other character.
HexVal(c) ==
  IF c >= 48 /\ c <= 57 THEN c - 48
  ELSE IF c >= 97 /\ c <= 102 THEN c - 87
  ELSE IF c >= 65 /\ c <= 70 THEN c - 55
  ELSE -1

\* binascii.hexlify
Hexlify(data) ==
  Concat([k \in 1 .. Len(data) |->
            <<HexChars[(data[k] \div 16) + 1], HexChars[(data[k] % 16) + 1]>>])

\* binascii.unhexlify; ok = FALSE stands for binascii.Error
Unhexlify(text) ==
  IF Len(text) % 2 # 0 \/ \E k \in 1 .. Len(text) : HexVal(text[k]) < 0
  THEN [ok |-> FALSE, data |-> <<>>]
  ELSE [ok |-> TRUE,
        data |-> [k \in 1 .. Len(text) \div 2 |->
                    HexVal(text[2 * k - 1]) * 16 + HexVal(text[2 * k])]]

\* One byte inside repr(bytes), delimited by quote.
ReprByte(b, quote) ==
  IF b = quote \/ b = 92 THEN <<92, b>>
  ELSE IF b = 9 THEN <<92, 116>>
  ELSE IF b = 10 THEN <<92, 110>>
  ELSE IF b = 13 THEN <<92, 114>>
  ELSE IF b >= 32 /\ b <= 126 THEN <<b>>
  ELSE <<92, 120, HexChars[(b \div 16) + 1], HexChars[(b % 16) + 1]>>

\* repr(data) of a bytes object: b'...', or b"..." when data holds ' and
\* no ".
BytesRepr(data) ==
  LET quote == IF (\E k \in 1 .. Len(data) : data[k] = 39)
                    /\ ~(\E k \in 1 .. Len(data) : data[k] = 34)
               THEN 34 ELSE 39
  IN  <<98, quote>> \o Concat([k \in 1 .. Len(data) |-> ReprByte(data[k], quote)])
        \o <<quote>>

\* The characters of a bytes literal between its quotes, read from the
\* left: ok = FALSE if the closing quote comes before the end, an escape is
\* cut short or \x is not followed by two hexadecimal digits.
RECURSIVE LiteralBody(_, _)
LiteralBody(t, quote) ==
  IF t = <<>> THEN [ok |-> TRUE, data |-> <<>>]
  ELSE IF Head(t) = quote THEN [ok |-> FALSE, data |-> <<>>]
  ELSE IF Head(t) # 92
  THEN LET r == LiteralBody(Tail(t), quote)
       IN  [ok |-> r.ok, data |-> <<Head(t)>> \o r.data]
  ELSE IF Len(t) < 2 THEN [ok |-> FALSE, data |-> <<>>]
  ELSE IF t[2] = 120
  THEN IF Len(t) < 4 \/ HexVal(t[3]) < 0 \/ HexVal(t[4]) < 0
       THEN [ok |-> FALSE, data |-> <<>>]
       ELSE LET r == LiteralBody(SubSeq(t, 5, Len(t)), quote)
            IN  [ok |-> r.ok, data |-> <<HexVal(t[3]) * 16 + HexVal(t[4])>> \o r.data]
  ELSE LET r == LiteralBody(SubSeq(t, 3, Len(t)), quote)
           c == t[2]
       IN  [ok |-> r.ok,
            data |-> (IF c = 116 THEN <<9>>
                      ELSE IF c = 110 THEN <<10>>
                      ELSE IF c = 114 THEN <<13>>
                      ELSE IF c \in {92, 39, 34} THEN <<c>>
                      ELSE <<92, c>>) \o r.data]

\* Evaluating a bytes literal; ok = FALSE stands for SyntaxError.
EvalBytesLiteral(text) ==
  IF Len(text) < 3 \/ text[1] # 98 \/ text[2] \notin {39, 34} \/ text[Len(text)] # text[2]
  THEN [ok |-> FALSE, data |-> <<>>]
  ELSE LiteralBody(SubSeq(text, 3, Len(text) - 1), text[2])

\* Is text prefix, something, suffix?
Wrapped(text, prefix, suffix) ==
  /\ Len(text) >= Len(prefix) + Len(suffix)
  /\ SubSeq(text, 1, Len(prefix)) = prefix
  /\ SubSeq(text, Len(text) - Len(suffix) + 1, Len(text)) = suffix

Unwrap(text, prefix, suffix) == SubSeq(text, Len(prefix) + 1, Len(text) - Len(suffix))

\* eval of an expression that is a bytes literal or uh(bytes literal), with
\* uh bound to unhexlify; white space after it is ignored.
EvalBytesExpr(expr) ==
  LET text == RStrip(expr)
  IN  IF Wrapped(text, <<117, 104, 40>>, <<41>>)
      THEN LET lit == EvalBytesLiteral(Unwrap(text, <<117, 104, 40>>, <<41>>))
           IN  IF lit.ok THEN Unhexlify(lit.data) ELSE lit
      ELSE EvalBytesLiteral(text)

\* The snippets with the hexadecimal text passed to w as it is.
MutSnippetTextHexWithoutUh(c) ==
  IF c.kind = "lit" THEN <<119, 40>> \o BytesRepr(c.data) \o <<41>>
  ELSE <<119, 40>> \o BytesRepr(Hexlify(c.data)) \o <<41>>

\* The python_snippet of a write command of data_to_writes: f"w({block!r})"
\* or f"w(uh({hexlify(block)!r}))".
SnippetText(c) ==
  IF c.kind = "lit" THEN <<119, 40>> \o BytesRepr(c.data) \o <<41>>
  ELSE <<119, 40, 117, 104, 40>> \o BytesRepr(Hexlify(c.data)) \o <<41, 41>>

\* What the device's w (the write method of f) is called with when it
\* executes a snippet w(...).
EvalSnippet(text) ==
  IF Wrapped(text, <<119, 40>>, <<41>>)
  THEN EvalBytesExpr(Unwrap(text, <<119, 40>>, <<41>>))
  ELSE [ok |-> FALSE, data |-> <<>>]

\* bytes_to_evalable on the device
BytesToEvalable(data) ==
  LET as_bytes == BytesRepr(data)
      len_as_hex == 7 + Len(data) * 2
  IN  IF Len(as_bytes) < len_as_hex THEN as_bytes
      ELSE <<117, 104, 40>> \o BytesRepr(Hexlify(data)) \o <<41>>

\* Longest content tried, of the bytes "h", 0xFF, "'", '"', "\" and a line
\* feed.
MaxFLen == 3

FBytes == {104, 255, 39, 34, 92, 10}

\* Largest block_size tried.
MaxFBlock == 3

FileInit ==
  /\ f_pc = "start"
  /\ f_content \in SeqsUpTo(FBytes, MaxFLen)
  /\ f_bs \in 1 .. MaxFBlock
  /\ f_rbs \in 1 .. MaxFBlock
  /\ f_rest = f_content
  /\ f_cmds = <<>>
  /\ f_dev \in {NoFile, <<120, 121>>}
  /\ f_open = "none"
  /\ f_pos = 0
  /\ f_data = <<>>
  /\ f_reads = 0
  /\ FileRestIdle

\* write_file_raw: self._open_file(path, "wb", {"w": "write"}) creates or
\* truncates the file, or the device raises OSError (no such directory)
FOpenW ==
  /\ f_pc = "start"
  /\ \/ /\ f_dev' = <<>>
        /\ f_open' = "wb"
        /\ f_pc' = "writing"
     \/ /\ f_pc' = "OSError"
        /\ UNCHANGED <<f_dev, f_open>>
  /\ UNCHANGED <<f_content, f_bs, f_rbs, f_rest, f_cmds, f_pos, f_data, f_reads>>
  /\ UNCHANGED fileRest

\* One round of the loop of write_file_raw: data_to_writes slices the next
\* block off and yields its command; the device executes the snippet
FWrite ==
  /\ f_pc = "writing"
  /\ f_rest # <<>>
  /\ LET c == Head(DataToWrites(f_rest, f_bs))
         done == Len(DataToWrites(f_rest, f_bs)) = 1
         written == EvalSnippet(SnippetText(c))
     IN  /\ f_cmds' = Append(f_cmds, [python_snippet |-> SnippetText(c), bytes_written |-> c.n])
         /\ f_rest' = IF done THEN <<>> ELSE PySlice(f_rest, f_bs, Len(f_rest))
         /\ IF written.ok
            THEN /\ f_dev' = f_dev \o written.data
                 /\ f_pc' = "writing"
            ELSE /\ f_pc' = "AssertionError"
                 /\ UNCHANGED f_dev
  /\ UNCHANGED <<f_content, f_bs, f_rbs, f_open, f_pos, f_data, f_reads>>
  /\ UNCHANGED fileRest

\* self._close_file() once data_to_writes is exhausted
FCloseW ==
  /\ f_pc = "writing"
  /\ f_rest = <<>>
  /\ f_open' = "none"
  /\ f_pc' = "written"
  /\ UNCHANGED <<f_content, f_bs, f_rbs, f_rest, f_cmds, f_dev, f_pos, f_data, f_reads>>
  /\ UNCHANGED fileRest

\* read_file_raw: self._open_file(path, "rb")
FOpenR ==
  /\ f_pc = "written"
  /\ f_open' = "rb"
  /\ f_pos' = 0
  /\ f_data' = <<>>
  /\ f_pc' = "reading"
  /\ UNCHANGED <<f_content, f_bs, f_rbs, f_rest, f_cmds, f_dev, f_reads>>
  /\ UNCHANGED fileRest

\* read_file_raw without its loop: one block is read.
MutFReadStopsAfterFirstBlock ==
  /\ f_pc = "reading"
  /\ LET read == PySlice(f_dev, f_pos, f_pos + f_rbs)
         out == BytesToEvalable(read) \o <<13, 10>>
         block == EvalBytesExpr(out)
     IN  /\ f_pos' = f_pos + Len(read)
         /\ f_reads' = f_reads + 1
         /\ IF block.ok
            THEN /\ f_data' = f_data \o block.data
                 /\ f_pc' = "read"
            ELSE /\ f_pc' = "SyntaxError"
                 /\ UNCHANGED f_data
  /\ UNCHANGED <<f_content, f_bs, f_rbs, f_rest, f_cmds, f_dev, f_open>>
  /\ UNCHANGED fileRest

\* One round of the loop of read_file_raw: the device prints
\* bytes_to_evalable(f.read(block_size)) and a line ending, the host
\* evaluates the output and stops at a block shorter than block_size
FRead ==
  /\ f_pc = "reading"
  /\ LET read == PySlice(f_dev, f_pos, f_pos + f_rbs)
         out == BytesToEvalable(read) \o <<13, 10>>
         block == EvalBytesExpr(out)
     IN  /\ f_pos' = f_pos + Len(read)
         /\ f_reads' = f_reads + 1
         /\ IF block.ok
            THEN /\ f_data' = f_data \o block.data
                 /\ f_pc' = IF Len(block.data) < f_rbs THEN "read" ELSE "reading"
            ELSE /\ f_pc' = "SyntaxError"
                 /\ UNCHANGED f_data
  /\ UNCHANGED <<f_content, f_bs, f_rbs, f_rest, f_cmds, f_dev, f_open>>
  /\ UNCHANGED fileRest

\* self._close_file(); return data
FCloseR ==
  /\ f_pc = "read"
  /\ f_open' = "none"
  /\ f_pc' = "returned"
  /\ UNCHANGED <<f_content, f_bs, f_rbs, f_rest, f_cmds, f_dev, f_pos, f_data, f_reads>>
  /\ UNCHANGED fileRest

FileNext ==
  \/ FOpenW
  \/ FWrite
  \/ FCloseW
  \/ FOpenR
  \/ FRead
  \/ FCloseR

SpecFile == FileInit /\ [][FileNext]_vars

\* ========================================================================
\* WebReplConnection (connection.py): the receiver thread, the
\* authentication of the constructor, and the calls made after it
\* ========================================================================

Frame(opcode, payload) == [opcode |-> opcode, payload |-> payload]

\* "Password: "
PasswordPrompt == <<80, 97, 115, 115, 119, 111, 114, 100, 58, 32>>

\* ": "
ColonSpace == <<58, 32>>

\* "\r\n"
CRLF == <<13, 10>>

\* "WebREPL connected\r\n"
WebReplConnected ==
  <<87, 101, 98, 82, 69, 80, 76, 32, 99, 111, 110, 110, 101, 99, 116, 101, 100, 13, 10>>

\* ">>> "
FixedPrompt == <<62, 62, 62, 32>>

\* "Access denied\r\n"
AccessDenied == <<65, 99, 99, 101, 115, 115, 32, 100, 101, 110, 105, 101, 100, 13, 10>>

\* password.encode("utf-8") + b"\n" for the password "pw"
PasswordLine == <<112, 119, 10>>

\* Most frames the device sends.
MaxFrames == 3

\* Most calls made on the connection after its construction.
MaxOps == 2

\* What the device may send while the constructor authenticates, and after.
AuthFrames ==
  {Frame("text", p) : p \in {PasswordPrompt, CRLF \o WebReplConnected \o FixedPrompt,
                             CRLF \o AccessDenied}}
    \cup {Frame("ping", <<112>>), Frame("close", <<>>)}

ReplFrames ==
  {Frame("text", <<97>>), Frame("text", <<98>>), Frame("ping", <<112>>),
   Frame("close", <<>>)}

Authenticating == {"auth_prompt", "auth_write", "auth_r1", "auth_r2", "auth_r3"}

NoCall == [call |-> "none", raised |-> "none", data |-> <<>>, n |-> 0]

\* The constructor has done the handshake and started the receiver thread;
\* or it has returned already.
WebInit ==
  /\ k_pc \in {"auth_prompt", "connected"}
  /\ k_sock = "open"
  /\ k_thread = "running"
  /\ k_lastframe = "none"
  /\ k_wire = <<>>
  /\ k_nframes = 0
  /\ k_pipe = <<>>
  /\ k_piped = <<>>
  /\ k_sent = <<>>
  /\ k_auth = <<>>
  /\ k_err = "none"
  /\ k_nops = 0
  /\ k_last = NoCall
  /\ WebRestIdle

\* The device sends a frame.
KDevSend ==
  /\ k_pc \in Authenticating \cup {"connected", "closed"}
  /\ k_sock = "open"
  /\ k_nframes < MaxFrames
  /\ \E f \in (IF k_pc \in Authenticating THEN AuthFrames ELSE ReplFrames) :
       k_wire' = Append(k_wire, f)
  /\ k_nframes' = k_nframes + 1
  /\ UNCHANGED <<k_pc, k_sock, k_thread, k_lastframe, k_pipe, k_piped, k_sent, k_auth,
                 k_err, k_nops, k_last>>
  /\ UNCHANGED webRest

\* One round of the loop of run(): a frame is received; the payload of a
\* text frame goes to the pipe; a close frame is answered, the socket
\* closed and the loop left; a ping frame is answered with a pong of the
\* same payload, and the loop is left too (break)
KRecvFrame ==
  /\ k_thread = "running"
  /\ k_sock = "open"
  /\ k_wire # <<>>
  /\ LET frame == Head(k_wire)
     IN  /\ k_wire' = Tail(k_wire)
         /\ k_lastframe' = frame.opcode
         /\ IF frame.opcode = "text"
            THEN /\ k_pipe' = k_pipe \o frame.payload
                 /\ k_piped' = k_piped \o frame.payload
                 /\ UNCHANGED <<k_sent, k_sock, k_thread>>
            ELSE IF frame.opcode = "close"
            THEN /\ k_sent' = Append(k_sent, Frame("close", <<>>))
                 /\ k_sock' = "closed"
                 /\ k_thread' = "ended"
                 /\ UNCHANGED <<k_pipe, k_piped>>
            ELSE /\ k_sent' = Append(k_sent, Frame("pong", frame.payload))
                 /\ k_thread' = "ended"
                 /\ UNCHANGED <<k_pipe, k_piped, k_sock>>
  /\ UNCHANGED <<k_pc, k_nframes, k_auth, k_err, k_nops, k_last>>
  /\ UNCHANGED webRest

\* self._recv_frame() raises OSError on the closed socket: run() returns
KRecvError ==
  /\ k_thread = "running"
  /\ k_sock = "closed"
  /\ k_thread' = "ended"
  /\ UNCHANGED <<k_pc, k_sock, k_lastframe, k_wire, k_nframes, k_pipe, k_piped, k_sent,
                 k_auth, k_err, k_nops, k_last>>
  /\ UNCHANGED webRest

\* One read_until of the constructor, unchecked (the prompt) or checked
\* against what is expected: a different response raises
\* WebReplAuthenticationError, and self.close() runs before it leaves
KAuthRead(at, ending, expected, next) ==
  /\ k_pc = at
  /\ LET response == ReadUntil(k_pipe, ending).data
     IN  /\ k_pipe' = ReadUntil(k_pipe, ending).rest
         /\ k_auth' = Append(k_auth, response)
         /\ IF at = "auth_prompt" \/ response = expected
            THEN /\ k_pc' = next
                 /\ UNCHANGED <<k_sock, k_err>>
            ELSE /\ k_pc' = "raised"
                 /\ k_err' = "WebReplAuthenticationError"
                 /\ k_sock' = "closed"
  /\ UNCHANGED <<k_thread, k_lastframe, k_wire, k_nframes, k_piped, k_sent, k_nops,
                 k_last>>
  /\ UNCHANGED webRest

\* self.read_until(b": ")
KAuthPrompt == KAuthRead("auth_prompt", ColonSpace, ColonSpace, "auth_write")

\* self.write(password.encode("utf-8") + b"\n"); sendall raises OSError if
\* the socket was closed meanwhile
KAuthWrite ==
  /\ k_pc = "auth_write"
  /\ IF k_sock = "open"
     THEN /\ k_sent' = Append(k_sent, Frame("text", PasswordLine))
          /\ k_pc' = "auth_r1"
          /\ UNCHANGED <<k_sock, k_err>>
     ELSE /\ k_pc' = "raised"
          /\ k_err' = "OSError"
          /\ UNCHANGED <<k_sock, k_sent>>
  /\ UNCHANGED <<k_thread, k_lastframe, k_wire, k_nframes, k_pipe, k_piped, k_auth,
                 k_nops, k_last>>
  /\ UNCHANGED webRest

\* response = self.read_until(b"\r\n"); if response != b"\r\n": raise
KAuthNewline == KAuthRead("auth_r1", CRLF, CRLF, "auth_r2")

\* response = self.read_until(b"\r\n"); compared with
\* b"WebREPL connected\r\n"
KAuthConnected == KAuthRead("auth_r2", CRLF, WebReplConnected, "auth_r3")

\* response = self.read_until(b">>> "); compared with b">>> "
KAuthFixedPrompt == KAuthRead("auth_r3", FixedPrompt, FixedPrompt, "connected")

\* How a read of the first n bytes of the pipe is recorded.
ReadCall(call, n) ==
  [call |-> call, raised |-> "none", data |-> SubSeq(k_pipe, 1, n), n |-> 0]

\* read(1), read_until(b"b") or read_buffered() on the constructed
\* connection: the bytes come from the pipe, whatever the socket's state
KRead ==
  /\ k_pc \in {"connected", "closed"}
  /\ k_nops < MaxOps
  /\ \E call \in {"read", "read_until", "read_buffered"} :
       LET n == IF call = "read" THEN Min(1, Len(k_pipe))
                ELSE IF call = "read_until" THEN Len(ReadUntil(k_pipe, <<98>>).data)
                ELSE Len(k_pipe)
       IN  /\ k_pipe' = SubSeq(k_pipe, n + 1, Len(k_pipe))
           /\ k_last' = IF k_pc = "closed" THEN ReadCall(call, n) ELSE k_last
  /\ k_nops' = k_nops + 1
  /\ UNCHANGED <<k_pc, k_sock, k_thread, k_lastframe, k_wire, k_nframes, k_piped, k_sent,
                 k_auth, k_err>>
  /\ UNCHANGED webRest

\* write(b"a"): a text frame is sent and len(data) returned; sendall raises
\* OSError on a closed socket
KWrite ==
  /\ k_pc \in {"connected", "closed"}
  /\ k_nops < MaxOps
  /\ IF k_sock = "open"
     THEN /\ k_sent' = Append(k_sent, Frame("text", <<97>>))
          /\ k_last' = IF k_pc = "closed"
                       THEN [call |-> "write", raised |-> "none", data |-> <<>>, n |-> 1]
                       ELSE k_last
     ELSE /\ k_last' = IF k_pc = "closed"
                       THEN [call |-> "write", raised |-> "OSError", data |-> <<>>, n |-> 0]
                       ELSE k_last
          /\ UNCHANGED k_sent
  /\ k_nops' = k_nops + 1
  /\ UNCHANGED <<k_pc, k_sock, k_thread, k_lastframe, k_wire, k_nframes, k_pipe, k_piped,
                 k_auth, k_err>>
  /\ UNCHANGED webRest

\* close(): self._sock.close()
KClose ==
  /\ k_pc = "connected"
  /\ k_pc' = "closed"
  /\ k_sock' = "closed"
  /\ UNCHANGED <<k_thread, k_lastframe, k_wire, k_nframes, k_pipe, k_piped, k_sent,
                 k_auth, k_err, k_nops, k_last>>
  /\ UNCHANGED webRest

WebNext ==
  \/ KDevSend
  \/ KRecvFrame
  \/ KRecvError
  \/ KAuthPrompt
  \/ KAuthWrite
  \/ KAuthNewline
  \/ KAuthConnected
  \/ KAuthFixedPrompt
  \/ KRead
  \/ KWrite
  \/ KClose

SpecWeb == WebInit /\ [][WebNext]_vars

\* ========================================================================
\* remove_recursive (upy_fs.py): the host's loop and the device's function
\* ========================================================================

\* The paths tried: a directory "d" with files, a subdirectory "d/s" with
\* files, and a file "f".
RmDirs == {"d", "d/s"}

RmFiles == {"f", "d/x", "d/y", "d/s/x", "d/s/y"}

RmParent(p) ==
  IF p \in {"d/x", "d/y", "d/s"} THEN "d"
  ELSE IF p \in {"d/s/x", "d/s/y"} THEN "d/s"
  ELSE ""

\* os.ilistdir(p): the entries of directory p in tree
RmEntries(p, tree) == {c \in tree : RmParent(c) = p}

\* Every path of a tree lies in a directory of the tree.
RmTrees ==
  {t \in SUBSET (RmDirs \cup RmFiles) : \A p \in t : RmParent(p) = "" \/ RmParent(p) \in t}

RmInit ==
  /\ x_pc = "host"
  /\ x_path \in {"d", "f"}
  /\ x_tree \in RmTrees
  /\ x_tree0 = x_tree
  /\ x_issue = x_tree
  /\ x_cur = ""
  /\ x_attempts = 0
  /\ RmRestIdle

\* One round of the host's loop: raw_paste_exec of remove_recursive(path,
\* timeout_ms).  The device stats path: OSError if there is none, which
\* traceback_to_oserror raises on the host; a file is removed and the loop
\* left; for a directory the device enters its loop
XIssue ==
  /\ x_pc = "host"
  /\ x_attempts' = x_attempts + 1
  /\ x_issue' = x_tree
  /\ IF x_path \notin x_tree
     THEN /\ x_pc' = "OSError"
          /\ UNCHANGED <<x_tree, x_cur>>
     ELSE IF x_path \in RmFiles
     THEN /\ x_tree' = x_tree \ {x_path}
          /\ x_pc' = "returned"
          /\ UNCHANGED x_cur
     ELSE /\ x_cur' = x_path
          /\ x_pc' = "device"
          /\ UNCHANGED x_tree
  /\ UNCHANGED <<x_path, x_tree0>>
  /\ UNCHANGED rmRest

\* The deadline test that follows the entry just handled: Exception
\* ("Timeout") unwinds every device-side call and the host continues its
\* loop; or the device goes on.
RmDeadline ==
  \E expired \in BOOLEAN : x_pc' = IF expired THEN "host" ELSE "device"

\* The device before the change that tests the deadline first: the entry is
\* not removed when the time is up.
MutXRemoveFileTestsFirst ==
  /\ x_pc = "device"
  /\ \E c \in RmEntries(x_cur, x_tree) \cap RmFiles :
       \/ /\ x_tree' = x_tree \ {c}
          /\ x_pc' = "device"
       \/ /\ x_pc' = "host"
          /\ UNCHANGED x_tree
  /\ UNCHANGED <<x_path, x_tree0, x_issue, x_cur, x_attempts>>
  /\ UNCHANGED rmRest

\* An entry that is a file: os.remove, then the deadline test
XRemoveFile ==
  /\ x_pc = "device"
  /\ \E c \in RmEntries(x_cur, x_tree) \cap RmFiles : x_tree' = x_tree \ {c}
  /\ RmDeadline
  /\ UNCHANGED <<x_path, x_tree0, x_issue, x_cur, x_attempts>>
  /\ UNCHANGED rmRest

\* An entry that is a directory: the recursive call, with the same deadline
XEnterDir ==
  /\ x_pc = "device"
  /\ \E c \in RmEntries(x_cur, x_tree) \cap RmDirs : x_cur' = c
  /\ UNCHANGED <<x_pc, x_path, x_tree, x_tree0, x_issue, x_attempts>>
  /\ UNCHANGED rmRest

\* No entry is left: os.rmdir(path).  The outermost call returns and the
\* host leaves its loop; an inner call returns to the loop of its caller,
\* which tests the deadline
XRmdir ==
  /\ x_pc = "device"
  /\ RmEntries(x_cur, x_tree) = {}
  /\ x_tree' = x_tree \ {x_cur}
  /\ IF x_cur = x_path
     THEN /\ x_pc' = "returned"
          /\ UNCHANGED x_cur
     ELSE /\ x_cur' = RmParent(x_cur)
          /\ RmDeadline
  /\ UNCHANGED <<x_path, x_tree0, x_issue, x_attempts>>
  /\ UNCHANGED rmRest

\* A call of the device's os module fails: the traceback ends with OSError,
\* which the host raises
XDeviceError ==
  /\ x_pc = "device"
  /\ x_pc' = "OSError"
  /\ UNCHANGED <<x_path, x_tree, x_tree0, x_issue, x_cur, x_attempts>>
  /\ UNCHANGED rmRest

RmNext ==
  \/ XIssue
  \/ XRemoveFile
  \/ XEnterDir
  \/ XRmdir
  \/ XDeviceError

\* The host and the device keep running.
SpecRemove == RmInit /\ [][RmNext]_vars /\ WF_vars(RmNext)

\* ========================================================================
\* raw_paste_exec (upy_repl.py) byte by byte
\* ========================================================================

\* conn.read(n) with buf waiting: n bytes, or what there is when the
\* timeout comes first
ConnRead(buf, n) ==
  [data |-> SubSeq(buf, 1, Min(n, Len(buf))), rest |-> SubSeq(buf, Min(n, Len(buf)) + 1, Len(buf))]

\* The code strings tried: none, "a", the pound sign (two bytes) and Ctrl+D.
QCodes == {<<>>, <<97>>, <<163>>, <<4>>}

\* Most calls in one scope.
MaxCalls == 2

\* What the device sends for one call: b"R\x01" (or not), a window of 0, 1
\* or 2, a 0x01, a 0x04 or nothing while code is sent, the 0x04 for the end
\* of the code, output (one of them ">"), 0x04, exception output, 0x04,
\* and ">" (or junk and ">", or nothing).
QReplies ==
  {<<82, 1>> \o w \o g \o <<EOT>> \o o \o <<EOT>> \o e \o <<EOT>> \o p :
     w \in {<<0, 0>>, <<1, 0>>, <<2, 0>>},
     g \in {<<>>, <<SOH>>, <<EOT>>},
     o \in {<<>>, <<111>>, <<62>>},
     e \in {<<>>, <<255>>},
     p \in {<<62>>, <<120, 62>>, <<>>}}
  \cup {<<82, 0, 1, 0, EOT, EOT, EOT, 62>>, <<82, 1, 1>>, <<>>}

\* What it sends for the call after that.
QSecondReplies ==
  {<<>>, <<82, 1, 2, 0, EOT, 111, EOT, EOT, 62>>, <<82, 1, 1, 0, SOH, EOT, EOT, 101, EOT, 62>>}

ExecInit ==
  /\ q_pc = "idle"
  /\ \E r1 \in QReplies, r2 \in QSecondReplies : q_in = r1 \o r2
  /\ q_out = <<>> /\ q_in0 = q_in /\ q_out0 = <<>>
  /\ q_code0 = <<>> /\ q_code = <<>> /\ q_W = 0 /\ q_window = 0 /\ q_refused = FALSE
  /\ q_stdout = <<>> /\ q_stderr = <<>> /\ q_result = "none" /\ q_prev = "none"
  /\ q_calls = 0
  /\ ExecRestIdle

\* raw_paste_exec raises exc; the caller may go on in the same scope.
QRaise(exc) ==
  /\ q_pc' = "idle"
  /\ q_result' = exc

\* raw_paste_exec(conn, code) begins: conn.write(b"\x05A\x01")
QStart ==
  /\ q_pc = "idle"
  /\ q_calls < MaxCalls
  /\ q_calls' = q_calls + 1
  /\ \E code \in QCodes : q_code0' = code
  /\ q_in0' = q_in /\ q_out0' = q_out
  /\ q_out' = q_out \o <<5, 65, SOH>>
  /\ q_code' = <<>> /\ q_W' = 0 /\ q_window' = 0 /\ q_refused' = FALSE
  /\ q_stdout' = <<>> /\ q_stderr' = <<>>
  /\ q_prev' = q_result /\ q_result' = "none"
  /\ q_pc' = "hs"
  /\ UNCHANGED q_in
  /\ UNCHANGED execRest

\* response = conn.read(2); RawPasteModeNotSupportedError unless b"R\x01"
QHandshake ==
  /\ q_pc = "hs"
  /\ q_in' = ConnRead(q_in, 2).rest
  /\ IF ConnRead(q_in, 2).data = <<82, SOH>>
     THEN q_pc' = "win" /\ UNCHANGED q_result
     ELSE QRaise("RawPasteModeNotSupportedError")
  /\ UNCHANGED <<q_out, q_in0, q_out0, q_code0, q_code, q_W, q_window, q_refused,
                 q_stdout, q_stderr, q_prev, q_calls>>
  /\ UNCHANGED execRest

\* window_size_increment = struct.unpack("<H", conn.read(2))[0], then
\* code_utf8 = code.encode("utf-8") and the ValueError for a 0x04 in it
QReadWindow ==
  /\ q_pc = "win"
  /\ q_in' = ConnRead(q_in, 2).rest
  /\ LET data == ConnRead(q_in, 2).data
     IN  IF Len(data) < 2
         THEN QRaise("struct.error") /\ UNCHANGED <<q_W, q_window, q_code>>
         ELSE /\ q_W' = data[1] + 256 * data[2]
              /\ q_window' = data[1] + 256 * data[2]
              /\ q_code' = Utf8(q_code0)
              /\ IF \E k \in 1 .. Len(Utf8(q_code0)) : Utf8(q_code0)[k] = EOT
                 THEN QRaise("ValueError")
                 ELSE q_pc' = "loop" /\ UNCHANGED q_result
  /\ UNCHANGED <<q_out, q_in0, q_out0, q_code0, q_refused, q_stdout, q_stderr, q_prev,
                 q_calls>>
  /\ UNCHANGED execRest

\* One pass of the send loop: with the window shut one byte is read, a
\* 0x01 opens the window, a 0x04 leaves the loop and anything else raises;
\* then conn.write(code_utf8[:window_size]), which may take only part of it
QLoopPass ==
  /\ q_pc = "loop"
  /\ q_code # <<>> \/ q_window = 0
  /\ LET r == IF q_window = 0 THEN ConnRead(q_in, 1) ELSE [data |-> <<SOH>>, rest |-> q_in]
         window == IF q_window = 0 THEN q_window + q_W ELSE q_window
         block == PySlice(q_code, 0, window)
     IN  /\ q_in' = r.rest
         /\ IF r.data = <<SOH>>
            THEN \E written \in (IF block = <<>> THEN {0} ELSE 1 .. Len(block)) :
                   /\ q_out' = q_out \o SubSeq(block, 1, written)
                   /\ q_code' = SubSeq(q_code, written + 1, Len(q_code))
                   /\ q_window' = window - written
                   /\ UNCHANGED <<q_pc, q_refused, q_result>>
            ELSE IF r.data = <<EOT>>
            THEN /\ q_refused' = TRUE
                 /\ q_pc' = "eot"
                 /\ UNCHANGED <<q_out, q_code, q_window, q_result>>
            ELSE /\ QRaise("MicroPythonReplError")
                 /\ UNCHANGED <<q_out, q_code, q_window, q_refused>>
  /\ UNCHANGED <<q_in0, q_out0, q_code0, q_W, q_stdout, q_stderr, q_prev, q_calls>>
  /\ UNCHANGED execRest

\* After the send loop: conn.write(b"\x04")
QEot ==
  /\ \/ q_pc = "eot"
     \/ q_pc = "loop" /\ q_code = <<>> /\ q_window # 0
  /\ q_out' = Append(q_out, EOT)
  /\ q_pc' = "drain"
  /\ UNCHANGED <<q_in, q_in0, q_out0, q_code0, q_code, q_W, q_window, q_refused,
                 q_stdout, q_stderr, q_result, q_prev, q_calls>>
  /\ UNCHANGED execRest

\* response = conn.read(1) until the 0x04 that acknowledges the end of the
\* code; a 0x01 is passed over
QDrain ==
  /\ q_pc = "drain"
  /\ q_in' = ConnRead(q_in, 1).rest
  /\ IF ConnRead(q_in, 1).data = <<SOH>>
     THEN UNCHANGED <<q_pc, q_result>>
     ELSE IF ConnRead(q_in, 1).data = <<EOT>>
     THEN q_pc' = "out" /\ UNCHANGED q_result
     ELSE QRaise("MicroPythonReplError")
  /\ UNCHANGED <<q_out, q_in0, q_out0, q_code0, q_code, q_W, q_window, q_refused,
                 q_stdout, q_stderr, q_prev, q_calls>>
  /\ UNCHANGED execRest

\* bytes.decode("utf-8") succeeds on the outputs tried unless one holds
\* 0xFF.
Utf8Decodable(s) == \A k \in 1 .. Len(s) : s[k] < 128

\* A version of QResponse that leaves the ">" unread.
MutQResponseLeavesPrompt ==
  /\ q_pc = "out"
  /\ LET o == ExpectEndswith(q_in, <<EOT>>)
         e == ExpectEndswith(o.rest, <<EOT>>)
     IN  IF ~o.ok
         THEN QRaise("MicroPythonReplError") /\ q_in' = o.rest /\ UNCHANGED <<q_stdout, q_stderr>>
         ELSE IF ~e.ok
         THEN /\ QRaise("MicroPythonReplError") /\ q_in' = e.rest
              /\ q_stdout' = DropLast(o.data, 1) /\ UNCHANGED q_stderr
         ELSE /\ q_in' = e.rest
              /\ q_stdout' = DropLast(o.data, 1)
              /\ q_stderr' = DropLast(e.data, 1)
              /\ IF q_code # <<>> THEN QRaise("SomeCodeNotSentError")
                 ELSE IF Utf8Decodable(DropLast(o.data, 1)) /\ Utf8Decodable(DropLast(e.data, 1))
                 THEN QRaise("returned")
                 ELSE QRaise("UnicodeDecodeError")
  /\ UNCHANGED <<q_out, q_in0, q_out0, q_code0, q_code, q_W, q_window, q_refused, q_prev,
                 q_calls>>
  /\ UNCHANGED execRest

\* code_output and exception_output are read up to their 0x04, then the
\* ">"; the call returns the two decoded, or raises SomeCodeNotSentError
\* when code is left
QResponse ==
  /\ q_pc = "out"
  /\ LET o == ExpectEndswith(q_in, <<EOT>>)
         e == ExpectEndswith(o.rest, <<EOT>>)
         p == ExpectEndswith(e.rest, <<62>>)
     IN  IF ~o.ok
         THEN QRaise("MicroPythonReplError") /\ q_in' = o.rest /\ UNCHANGED <<q_stdout, q_stderr>>
         ELSE IF ~e.ok
         THEN /\ QRaise("MicroPythonReplError") /\ q_in' = e.rest
              /\ q_stdout' = DropLast(o.data, 1) /\ UNCHANGED q_stderr
         ELSE /\ q_in' = p.rest
              /\ q_stdout' = DropLast(o.data, 1)
              /\ q_stderr' = DropLast(e.data, 1)
              /\ IF ~p.ok THEN QRaise("MicroPythonReplError")
                 ELSE IF q_code # <<>> THEN QRaise("SomeCodeNotSentError")
                 ELSE IF Utf8Decodable(DropLast(o.data, 1)) /\ Utf8Decodable(DropLast(e.data, 1))
                 THEN QRaise("returned")
                 ELSE QRaise("UnicodeDecodeError")
  /\ UNCHANGED <<q_out, q_in0, q_out0, q_code0, q_code, q_W, q_window, q_refused, q_prev,
                 q_calls>>
  /\ UNCHANGED execRest

ExecNext ==
  \/ QStart
  \/ QHandshake
  \/ QReadWindow
  \/ QLoopPass
  \/ QEot
  \/ QDrain
  \/ QResponse

SpecExec == ExecInit /\ [][ExecNext]_vars

\* ========================================================================
\* FilesystemAPI._ensure_defined (upy_fs.py)
\* ========================================================================

\* The dependencies in _DEFINITIONS of the helpers tried.
Dependencies ==
  [name \in {"os", "time", "h", "bytes_to_evalable", "pnb", "remove_recursive"} |->
     CASE name = "remove_recursive" -> <<"os", "time">>
       [] name = "pnb" -> <<"bytes_to_evalable">>
       [] name = "bytes_to_evalable" -> <<"h">>
       [] OTHER -> <<>>]

\* The helpers the facade's methods ask for: rename and sync ("os"),
\* update_file ("h"), read_file_raw ("pnb"), remove_recursive.
FacadeHelpers == {"os", "h", "pnb", "remove_recursive"}

\* Most methods called on one FilesystemAPI.
MaxMethods == 3

DefInit ==
  /\ e_pc = "idle"
  /\ e_helper = ""
  /\ e_defined = {} /\ e_device = {} /\ e_sent = <<>> /\ e_stack = <<>>
  /\ e_result = "none" /\ e_methods = 0
  /\ DefRestIdle

\* _ensure_defined(name) is entered: a name that is not in self._defined
\* is added to it at once, and its dependencies are then gone through.
EnsureEnter(name, stack) ==
  IF name \in e_defined
  THEN e_defined' = e_defined /\ e_stack' = stack
  ELSE /\ e_defined' = e_defined \cup {name}
       /\ e_stack' = Append(stack, [name |-> name, deps |-> Dependencies[name]])

\* A method of the facade begins with self._ensure_defined(helper)
EMethod ==
  /\ e_pc = "idle"
  /\ e_methods < MaxMethods
  /\ e_methods' = e_methods + 1
  /\ \E helper \in FacadeHelpers :
       /\ e_helper' = helper
       /\ EnsureEnter(helper, <<>>)
  /\ e_pc' = "ensure"
  /\ e_result' = "none"
  /\ UNCHANGED <<e_device, e_sent>>
  /\ UNCHANGED defRest

\* for dependency in dependencies: self._ensure_defined(dependency)
EDependency ==
  /\ e_pc = "ensure"
  /\ e_stack # <<>>
  /\ e_stack[Len(e_stack)].deps # <<>>
  /\ LET top == e_stack[Len(e_stack)]
     IN  EnsureEnter(Head(top.deps),
                     [e_stack EXCEPT ![Len(e_stack)] = [top EXCEPT !.deps = Tail(top.deps)]])
  /\ UNCHANGED <<e_pc, e_helper, e_device, e_sent, e_result, e_methods>>
  /\ UNCHANGED defRest

\* assert raw_paste_exec(self._ser, definition) == ("", ""): the definition
\* runs and the call returns to its caller, or raw_paste_exec raises or the
\* definition leaves a traceback, and the exception leaves every
\* _ensure_defined that runs and the method
EExec ==
  /\ e_pc = "ensure"
  /\ e_stack # <<>>
  /\ e_stack[Len(e_stack)].deps = <<>>
  /\ e_sent' = Append(e_sent, e_stack[Len(e_stack)].name)
  /\ \/ /\ e_device' = e_device \cup {e_stack[Len(e_stack)].name}
        /\ e_stack' = SubSeq(e_stack, 1, Len(e_stack) - 1)
        /\ UNCHANGED <<e_pc, e_result>>
     \/ /\ \E exc \in {"MicroPythonReplError", "AssertionError"} : e_result' = exc
        /\ e_stack' = <<>>
        /\ e_pc' = "idle"
        /\ UNCHANGED e_device
  /\ UNCHANGED <<e_helper, e_defined, e_methods>>
  /\ UNCHANGED defRest

\* The outermost _ensure_defined has returned: the method executes code
\* that calls the helper, which raises NameError on a device that lacks it
\* or a name it uses
EInvoke ==
  /\ e_pc = "ensure"
  /\ e_stack = <<>>
  /\ e_pc' = "idle"
  /\ e_result' = IF e_helper \in e_device THEN "returned" ELSE "NameError"
  /\ UNCHANGED <<e_helper, e_defined, e_device, e_sent, e_stack, e_methods>>
  /\ UNCHANGED defRest

DefNext ==
  \/ EMethod
  \/ EDependency
  \/ EExec
  \/ EInvoke

SpecDefine == DefInit /\ [][DefNext]_vars

\* ========================================================================
\* enumerate_local_files (sync.py) as sync_to_device calls it
\* ========================================================================

\* UPYT_CACHE_DIRNAME
CacheDirName == ".upyt_cache"

\* An exclusion pattern of plain names: whether it begins with "/", its
\* names, and whether it ends with "/".
Pattern(lead, names, trail) == [lead |-> lead, names |-> names, trail |-> trail]

\* The paths tried, relative to host_dir: the file "a", the directory "d"
\* with a file, and the cache directory with the directory of one device
\* and a mirrored file. A path named "a" is a file, any other a directory.
EnumPaths ==
  {<<"a">>, <<"d">>, <<"d", "a">>, <<CacheDirName>>, <<CacheDirName, "ID">>,
   <<CacheDirName, "ID", "a">>}

IsDirPath(path) == path[Len(path)] # "a"

\* The trees tried: every directory of a path is there, and so is the
\* cache directory of the device, which sync_to_device has made.
EnumTrees ==
  {t \in SUBSET EnumPaths :
     /\ <<CacheDirName, "ID">> \in t
     /\ \A p \in t : Len(p) > 1 => SubSeq(p, 1, Len(p) - 1) \in t}

\* The exclude lists tried.
ExcludeLists ==
  {<<>>,
   <<Pattern(FALSE, <<"a">>, FALSE)>>,
   <<Pattern(TRUE, <<"a">>, FALSE)>>,
   <<Pattern(FALSE, <<"d">>, TRUE)>>,
   <<Pattern(FALSE, <<"a">>, TRUE), Pattern(FALSE, <<"ID">>, FALSE)>>,
   <<Pattern(TRUE, <<CacheDirName, "ID">>, FALSE)>>}

\* host_dir.glob of an exclusion: one that begins with "/" is matched from
\* host_dir, any other ("**/" is put before it) at any depth; a pattern
\* that ends with "/" matches directories only.
Glob(tree, exclusion) ==
  {p \in tree :
     /\ Len(p) >= Len(exclusion.names)
     /\ SubSeq(p, Len(p) - Len(exclusion.names) + 1, Len(p)) = exclusion.names
     /\ exclusion.lead => Len(p) = Len(exclusion.names)
     /\ exclusion.trail => IsDirPath(p)}

EnumInit ==
  /\ n_pc = "start"
  /\ n_tree \in EnumTrees
  /\ n_exclude \in ExcludeLists
  /\ n_excluded = {} /\ n_to_visit = <<>> /\ n_yielded = {}
  /\ EnumRestIdle

\* A sync_to_device that passes exclude on as it is.
MutNStartCallerExcludesOnly ==
  /\ n_pc = "start"
  /\ n_excluded' = UNION {Glob(n_tree, n_exclude[k]) : k \in 1 .. Len(n_exclude)}
  /\ n_to_visit' = <<<<>>>>
  /\ n_pc' = "visit"
  /\ UNCHANGED <<n_tree, n_exclude, n_yielded>>
  /\ UNCHANGED enumRest

\* enumerate_local_files(host_dir, exclude + ["/.upyt_cache/"]) begins:
\* excluded is filled from the globs and to_visit = [host_dir]
NStart ==
  /\ n_pc = "start"
  /\ LET exclude == Append(n_exclude, Pattern(TRUE, <<CacheDirName>>, TRUE))
     IN  n_excluded' = UNION {Glob(n_tree, exclude[k]) : k \in 1 .. Len(exclude)}
  /\ n_to_visit' = <<<<>>>>
  /\ n_pc' = "visit"
  /\ UNCHANGED <<n_tree, n_exclude, n_yielded>>
  /\ UNCHANGED enumRest

\* One round of the while loop: the entries of the first directory of
\* to_visit that are not excluded are yielded, in the order iterdir gives
\* them, and the directories among them are appended to to_visit
NVisit ==
  /\ n_pc = "visit"
  /\ n_to_visit # <<>>
  /\ LET directory == Head(n_to_visit)
         entries == {p \in n_tree : Len(p) = Len(directory) + 1
                                     /\ SubSeq(p, 1, Len(directory)) = directory}
         kept == entries \ n_excluded
         dirs == {p \in kept : IsDirPath(p)}
     IN  /\ n_yielded' = n_yielded \cup kept
         /\ \E order \in [1 .. Cardinality(dirs) -> dirs] :
              /\ \A i, j \in 1 .. Cardinality(dirs) : order[i] = order[j] => i = j
              /\ n_to_visit' = Tail(n_to_visit) \o order
  /\ UNCHANGED <<n_pc, n_tree, n_exclude, n_excluded>>
  /\ UNCHANGED enumRest

\* to_visit is empty: what was yielded is host_files
NEnd ==
  /\ n_pc = "visit"
  /\ n_to_visit = <<>>
  /\ n_pc' = "done"
  /\ UNCHANGED <<n_tree, n_exclude, n_excluded, n_to_visit, n_yielded>>
  /\ UNCHANGED enumRest

EnumNext ==
  \/ NStart
  \/ NVisit
  \/ NEnd

SpecEnum == EnumInit /\ [][EnumNext]_vars

\* ========================================================================
\* data_to_update_commands (upy_fs.py), one operation of the plan at a time
\* ========================================================================

\* Largest block_size tried.
MaxUpdBlock == 3

\* Runs that old and new have in common, long enough to be copied rather
\* than written again: bytes sent as hex, and bytes sent as they are.
UpdCommon == {<<0, 1, 2, 3, 4, 5, 6>>, <<97, 98, 99, 100, 101, 102, 103, 104, 105>>}

\* What stands before, after and, in old, behind the common run.
UpdPieces == {<<>>, <<0>>, <<1>>}

\* The (old_content, new_content) pairs tried.
UpdInputs ==
  {<<a \o k \o b \o c, d \o k \o e>> :
     k \in UpdCommon, a \in UpdPieces, b \in UpdPieces, c \in UpdPieces,
     d \in UpdPieces, e \in UpdPieces}

CmdsInit ==
  /\ g_pc = "start"
  /\ \E io \in UpdInputs : g_old = io[1] /\ g_new = io[2]
  /\ g_bs \in 1 .. MaxUpdBlock
  /\ g_ops = <<>> /\ g_ro = 0 /\ g_cmds = <<>>
  /\ CmdsRestIdle

\* operations = combine_sm_operations(...); read_offset = 0
GPlan ==
  /\ g_pc = "start"
  /\ g_ops' = UpdatePlan(g_old, g_new, g_bs)
  /\ g_ro' = 0
  /\ g_pc' = "loop"
  /\ UNCHANGED <<g_old, g_new, g_bs, g_cmds>>
  /\ UNCHANGED cmdsRest

\* A version of GOperation that seeks before every "equal".
MutGOperationAlwaysSeeks ==
  /\ g_pc = "loop"
  /\ g_ops # <<>>
  /\ LET o == Head(g_ops)
     IN  IF o.tag \in {"insert", "replace"}
         THEN /\ g_cmds' = g_cmds \o DataToWrites(PySlice(g_new, o.j1, o.j2), g_bs)
              /\ UNCHANGED g_ro
         ELSE IF o.tag = "equal"
         THEN /\ g_cmds' = g_cmds \o <<Cmd("seek", <<>>, o.i1, 0)>> \o CopyCmds(o.i1, o.i2, g_bs)
              /\ g_ro' = IF o.i1 < o.i2 THEN o.i2 ELSE o.i1
         ELSE UNCHANGED <<g_cmds, g_ro>>
  /\ g_ops' = Tail(g_ops)
  /\ UNCHANGED <<g_pc, g_old, g_new, g_bs>>
  /\ UNCHANGED cmdsRest

\* One round of the loop over operations: the writes of an "insert" or
\* "replace"; for an "equal" the seek, if read_offset is not i1, and the
\* w(r(length)) commands up to i2; nothing for a "delete"
GOperation ==
  /\ g_pc = "loop"
  /\ g_ops # <<>>
  /\ LET o == Head(g_ops)
     IN  IF o.tag \in {"insert", "replace"}
         THEN /\ g_cmds' = g_cmds \o DataToWrites(PySlice(g_new, o.j1, o.j2), g_bs)
              /\ UNCHANGED g_ro
         ELSE IF o.tag = "equal"
         THEN /\ g_cmds' = g_cmds
                             \o (IF g_ro # o.i1 THEN <<Cmd("seek", <<>>, o.i1, 0)>> ELSE <<>>)
                             \o CopyCmds(o.i1, o.i2, g_bs)
              /\ g_ro' = IF o.i1 < o.i2 THEN o.i2 ELSE o.i1
         ELSE UNCHANGED <<g_cmds, g_ro>>
  /\ g_ops' = Tail(g_ops)
  /\ UNCHANGED <<g_pc, g_old, g_new, g_bs>>
  /\ UNCHANGED cmdsRest

\* The loop is over.
GEnd ==
  /\ g_pc = "loop"
  /\ g_ops = <<>>
  /\ g_pc' = "done"
  /\ UNCHANGED <<g_old, g_new, g_bs, g_ops, g_ro, g_cmds>>
  /\ UNCHANGED cmdsRest

CmdsNext ==
  \/ GPlan
  \/ GOperation
  \/ GEnd

SpecCmds == CmdsInit /\ [][CmdsNext]_vars

\* ========================================================================
\* WebReplConnection (connection.py): frames sent by write() and by the
\* receiver thread, byte by byte
\* ========================================================================

\* _WebsocketOpcode
OpText == 1
OpClose == 8
OpPing == 9
OpPong == 10

\* byte ^ mask
RECURSIVE Xor(_, _)
Xor(a, b) ==
  IF a = 0 /\ b = 0 THEN 0
  ELSE (((a % 2) + (b % 2)) % 2) + 2 * Xor(a \div 2, b \div 2)

\* The bytes _send_frame hands to sendall for a final frame with a payload
\* of less than 126 bytes and use_mask = True.
EncodeFrame(frame, masking_key) ==
  <<128 + frame.opcode, 128 + Len(frame.payload)>>
    \o masking_key
    \o [i \in 1 .. Len(frame.payload) |-> Xor(frame.payload[i], masking_key[((i - 1) % 4) + 1])]

\* Values of os.urandom(4) tried.
MaskingKeys == {<<0, 0, 0, 0>>, <<1, 255, 97, 16>>}

\* Arguments of write() tried.
WriteData == {<<97>>, <<97, 98>>}

\* Calls of write() in one run.
MaxWrites == 2

\* What the device sends while the caller writes.
Incoming ==
  {<<>>, <<Frame(OpPing, <<>>)>>, <<Frame(OpPing, <<112>>)>>, <<Frame(OpClose, <<>>)>>,
   <<Frame(OpText, <<62>>), Frame(OpPing, <<112>>)>>}

\* The connection after its constructor: the receiver thread runs, the
\* lock is free.
SendInit ==
  /\ l_lock = "free" /\ l_sock = "open"
  /\ l_cpc = "idle" /\ l_cbuf = <<>>
  /\ l_rpc = "recv" /\ l_rframe = <<>> /\ l_rbuf = <<>>
  /\ l_in \in Incoming
  /\ l_out = <<>> /\ l_frames = <<>> /\ l_writes = 0
  /\ SendRestIdle

\* A version of LWrite that does not take the lock.
MutLWriteWithoutLock ==
  /\ l_cpc = "idle"
  /\ l_writes < MaxWrites
  /\ l_writes' = l_writes + 1
  /\ IF l_sock = "closed"
     THEN UNCHANGED <<l_lock, l_cpc, l_cbuf, l_frames>>
     ELSE \E data \in WriteData, masking_key \in MaskingKeys :
            LET out == EncodeFrame(Frame(OpText, data), masking_key)
            IN  /\ l_cbuf' = out
                /\ l_frames' = Append(l_frames, out)
                /\ l_cpc' = "sending"
                /\ UNCHANGED l_lock
  /\ UNCHANGED <<l_sock, l_rpc, l_rframe, l_rbuf, l_in, l_out>>
  /\ UNCHANGED sendRest

\* write(data): takes the lock (waits while the receiver thread holds it),
\* encodes the text frame and enters sendall; on a closed socket sendall
\* raises OSError at once and the lock is released again.
LWrite ==
  /\ l_cpc = "idle"
  /\ l_writes < MaxWrites
  /\ l_lock = "free"
  /\ l_writes' = l_writes + 1
  /\ IF l_sock = "closed"
     THEN UNCHANGED <<l_lock, l_cpc, l_cbuf, l_frames>>
     ELSE \E data \in WriteData, masking_key \in MaskingKeys :
            LET out == EncodeFrame(Frame(OpText, data), masking_key)
            IN  /\ l_cbuf' = out
                /\ l_frames' = Append(l_frames, out)
                /\ l_cpc' = "sending"
                /\ l_lock' = "caller"
  /\ UNCHANGED <<l_sock, l_rpc, l_rframe, l_rbuf, l_in, l_out>>
  /\ UNCHANGED sendRest

\* The receiver thread: _recv_frame and the match on the opcode. A text
\* frame goes to the pipe; a ping or a close is to be answered.
LRecvFrame ==
  /\ l_rpc = "recv"
  /\ l_sock = "open"
  /\ l_in # <<>>
  /\ l_rframe' = Head(l_in)
  /\ l_in' = Tail(l_in)
  /\ l_rpc' = IF Head(l_in).opcode = OpText THEN "recv" ELSE "reply"
  /\ UNCHANGED <<l_lock, l_sock, l_cpc, l_cbuf, l_rbuf, l_out, l_frames, l_writes>>
  /\ UNCHANGED sendRest

\* The receiver thread takes the lock (waits while the caller holds it),
\* encodes the close or pong frame and enters sendall.
LReply ==
  /\ l_rpc = "reply"
  /\ l_lock = "free"
  /\ \E masking_key \in MaskingKeys :
       LET frame == IF l_rframe.opcode = OpClose
                    THEN Frame(OpClose, <<>>)
                    ELSE Frame(OpPong, l_rframe.payload)
           out == EncodeFrame(frame, masking_key)
       IN  /\ l_rbuf' = out
           /\ l_frames' = Append(l_frames, out)
  /\ l_rpc' = "sending"
  /\ l_lock' = "receiver"
  /\ UNCHANGED <<l_sock, l_cpc, l_cbuf, l_rframe, l_in, l_out, l_writes>>
  /\ UNCHANGED sendRest

\* sendall: the socket takes some of the bytes left, from the caller's
\* thread or from the receiver thread.
LSockSend ==
  /\ l_sock = "open"
  /\ \/ /\ l_cpc = "sending"
        /\ \E n \in 1 .. Len(l_cbuf) :
             /\ l_out' = l_out \o SubSeq(l_cbuf, 1, n)
             /\ l_cbuf' = SubSeq(l_cbuf, n + 1, Len(l_cbuf))
        /\ UNCHANGED l_rbuf
     \/ /\ l_rpc = "sending"
        /\ \E n \in 1 .. Len(l_rbuf) :
             /\ l_out' = l_out \o SubSeq(l_rbuf, 1, n)
             /\ l_rbuf' = SubSeq(l_rbuf, n + 1, Len(l_rbuf))
        /\ UNCHANGED l_cbuf
  /\ UNCHANGED <<l_lock, l_sock, l_cpc, l_rpc, l_rframe, l_in, l_frames, l_writes>>
  /\ UNCHANGED sendRest

\* sendall has returned and the with block is left: write() returns; the
\* receiver thread, after a close frame, closes the socket inside the block,
\* and ends after either reply.
LRelease ==
  /\ \/ /\ l_cpc = "sending" /\ l_cbuf = <<>>
        /\ l_cpc' = "idle"
        /\ l_lock' = IF l_lock = "caller" THEN "free" ELSE l_lock
        /\ UNCHANGED <<l_rpc, l_sock>>
     \/ /\ l_rpc = "sending" /\ l_rbuf = <<>>
        /\ l_rpc' = "ended"
        /\ l_sock' = IF l_rframe.opcode = OpClose THEN "closed" ELSE l_sock
        /\ l_lock' = IF l_lock = "receiver" THEN "free" ELSE l_lock
        /\ UNCHANGED l_cpc
  /\ UNCHANGED <<l_cbuf, l_rframe, l_rbuf, l_in, l_out, l_frames, l_writes>>
  /\ UNCHANGED sendRest

SendNext ==
  \/ LWrite
  \/ LRecvFrame
  \/ LReply
  \/ LSockSend
  \/ LRelease

SpecSend == SendInit /\ [][SendNext]_vars

\* ------------------------------------------------------------------------
\* Claims about update_file
\* ------------------------------------------------------------------------

\* C6: after an update_file(path, old, new, safe=True) that returned without
\* error, the device's content of path is new, whatever the device held in
\* the ranges the plan did not read, and the temporary file is gone.
C6_SafeUpdateYieldsNew ==
  (u_pc = "done" /\ u_safe) =>
    /\ u_dev[UPath] = u_new
    /\ u_dev[TempName] = NoFile

\* C6 witness: a safe update returned; the device's file was not old, and
\* the plan did read from it.
C6_Witness ==
  /\ u_pc = "done"
  /\ u_safe
  /\ u_dev0[UPath] # u_old
  /\ u_sess.hash # <<>>
  /\ u_new # u_old

\* C7: when the bytes the device read differ from the ranges of old the plan
\* declared Equal, a safe update_file never renames; it raises UpdateError
\* with the temporary file deleted and path holding what it held before.
C7_MismatchRaisesAndRestores ==
  /\ (u_safe /\ u_pc \in {"verified", "done"}) => u_sess.hash = u_readhash
  /\ u_pc \in {"mismatch", "UpdateError"} =>
       /\ u_safe
       /\ u_sess.hash # u_readhash
       /\ u_dev[UPath] = u_dev0[UPath]
  /\ u_pc = "UpdateError" => u_dev[TempName] = NoFile

\* C7 witness: UpdateError was raised although a stray temporary file of an
\* earlier call existed.
C7_Witness ==
  /\ u_pc = "UpdateError"
  /\ u_dev0[TempName] # NoFile

\* C8: until the final rename, path (and every other name but the temporary
\* file's) holds what it held when the call started, so an abort leaves path
\* intact and nothing behind but the one temporary file.
C8_NoInPlaceWrite ==
  u_pc # "done" => \A n \in UNames \ {TempName} : u_dev[n] = u_dev0[n]

\* C8 witness: the call was aborted after patch commands had written to the
\* temporary file.
C8_Witness ==
  /\ u_pc = "aborted"
  /\ u_dev[TempName] \notin {NoFile, <<>>, u_dev0[TempName]}
  /\ u_dev[UPath] = u_dev0[UPath]

\* ------------------------------------------------------------------------
\* Claims about interrupt_and_enter_repl
\* ------------------------------------------------------------------------

IsReadEvent(ev) == ev.e \in {"flush", "prompt", "noprompt", "resp", "noresp"}

\* Every byte the reads of the call returned, in order.
RECURSIVE AllRead(_)
AllRead(log) ==
  IF log = <<>> THEN <<>>
  ELSE (IF IsReadEvent(Head(log)) THEN Head(log).data ELSE <<>>) \o AllRead(Tail(log))

\* The same without the six bytes of each prompt a prompt wait matched.
RECURSIVE AllReadButPrompts(_)
AllReadButPrompts(log) ==
  IF log = <<>> THEN <<>>
  ELSE (IF Head(log).e = "prompt" THEN DropLast(Head(log).data, Len(Prompt))
        ELSE IF IsReadEvent(Head(log)) THEN Head(log).data
        ELSE <<>>) \o AllReadButPrompts(Tail(log))

EtxWritten == Cardinality({k \in 1 .. Len(i_log) : i_log[k].e = "etx"})

IntrDone == i_pc \in {"returned", "NoReplError"}

\* C10 as stated: the call ends, after at most num_attempts attempts with
\* one ETX each, and a NoReplError carries every byte read during the call.
C10_NoReplErrorCarriesEveryByte ==
  /\ [](/\ i_attempt <= i_num_attempts
        /\ EtxWritten = i_attempt
        /\ (i_pc = "NoReplError" =>
              i_attempt = i_num_attempts /\ i_unmatched = AllRead(i_log)))
  /\ <>IntrDone

\* C10, amended: the call ends, after at most num_attempts attempts with
\* one ETX each, and a NoReplError carries every byte read during the call
\* except the "\r\n>>> " that each successful prompt wait matched.
C10_NoReplErrorCarriesUnmatchedBytes ==
  /\ [](/\ i_attempt <= i_num_attempts
        /\ EtxWritten = i_attempt
        /\ (i_pc = "NoReplError" =>
              i_attempt = i_num_attempts /\ i_unmatched = AllReadButPrompts(i_log)))
  /\ <>IntrDone

\* NoReplError after two attempts in which a prompt was read and the probe
\* was not answered, and a failed read returned bytes.
C10_Witness ==
  /\ i_pc = "NoReplError"
  /\ i_attempt = 2
  /\ \E k \in 1 .. Len(i_log) : i_log[k].e = "prompt"
  /\ \E k \in 1 .. Len(i_log) : i_log[k].e = "noresp" /\ i_log[k].data # <<>>

\* ------------------------------------------------------------------------
\* Claims about raw_paste_exec and raw_mode
\* ------------------------------------------------------------------------

\* The window size has been read and code_utf8 made.
Sending == p_pc \in {"loop", "write", "eot", "drain", "out"}

\* Code bytes written so far by the current call.
CodeWritten == Len(Utf8(p_code0)) - Len(p_code)

\* C4 as stated: the code bytes written never exceed W * (1 + the 0x01
\* bytes read), a 0x01 is read only when window_size is zero, and no write
\* of code takes more bytes than window_size.
C4_AckReadOnlyAtZeroWindow ==
  /\ [](Sending => CodeWritten <= p_W * (1 + p_acks))
  /\ [][/\ p_acks' = p_acks + 1 => p_window = 0
        /\ p_pc \in {"loop", "write"} => Len(p_code) - Len(p_code') <= p_window]_vars

\* C4, amended: the code bytes written never exceed W * (1 + the 0x01 bytes
\* read), until the end-of-code byte is written a 0x01 is read only when
\* window_size is zero (after it they are read whatever the window), and
\* no write of code takes more bytes than window_size.
C4_WindowFlowControl ==
  /\ [](Sending => CodeWritten <= p_W * (1 + p_acks))
  /\ [][/\ (p_acks' = p_acks + 1 /\ p_pc # "drain") => p_window = 0
        /\ (p_acks' = p_acks + 1 /\ p_pc = "drain") => r_out[Len(r_out)] = EOT
        /\ p_pc \in {"loop", "write"} => Len(p_code) - Len(p_code') <= p_window]_vars

\* All the code was sent, more of it than one window holds, and the window
\* is open when the replies to the end-of-code byte are read.
C4_Witness ==
  /\ p_pc = "out"
  /\ p_code = <<>>
  /\ p_W > 0
  /\ CodeWritten > p_W
  /\ p_window > 0
  /\ p_acks > (CodeWritten \div p_W)

\* Position of the last SOH, EOT STX written by raw_mode itself.
ExitWritten == Len(r_out) >= 3 /\ SubSeq(r_out, Len(r_out) - 1, Len(r_out)) = <<EOT, STX>>

ScopeLeft == r_pc \in {"left", "exitfailed", "enterfailed"}

\* C5 as stated: once the SOH was written, however the scope is left, EOT
\* STX was written and the device is at the friendly prompt.
C5_EveryEntryMatchedByExit ==
  (ScopeLeft /\ r_out # <<>> /\ Head(r_out) = SOH) => (ExitWritten /\ r_dev = "friendly")

\* C5, amended: once the banner was read, however the scoped region ends,
\* the last bytes written are EOT STX and the prompt is awaited; the device
\* is at the friendly prompt when that wait succeeds, and when it fails
\* MicroPythonReplError leaves the scope. When the banner is not read,
\* nothing is written after the SOH.
C5_EveryEnteredScopeExits ==
  /\ r_pc \in {"left", "exitfailed"} => ExitWritten
  /\ r_pc = "left" => r_dev = "friendly"
  /\ r_pc = "exitfailed" => r_exc = "MicroPythonReplError"
  /\ r_pc = "enterfailed" => r_out = <<SOH>>
  /\ r_pc \in {"body", "exit"} => ~ExitWritten

\* The scope was left by an exception that a raw_paste_exec raised inside
\* it, after the exit was written and the prompt read.
C5_Witness ==
  /\ r_pc = "left"
  /\ r_exc = "SomeCodeNotSentError"
  /\ r_dev = "friendly"
  /\ ExitWritten

\* ------------------------------------------------------------------------
\* Claims about sync_to_device
\* ------------------------------------------------------------------------

\* The call is over: it returned, or an exception left it.
SyncEnded == s_pc \in {"done", "aborted", "OSError"}

\* Both token files parse and hold the same version.
TokenVersionsAgree ==
  /\ ReadToken(s_cache).ok
  /\ ReadToken(s_dev).ok
  /\ ReadToken(s_cache).version = ReadToken(s_dev).version

\* C1: when a call that got as far as writing the device's token is over,
\* and the cache's version was not above the device's at the start, the
\* versions of the cache's and the device's token are equal exactly if the
\* call returned.
C1_TokenVersionsAgreeIffCompleted ==
  (/\ SyncEnded
   /\ s_version = s_version_remote + 1
   /\ (s_cache_version = None \/ s_cache_version <= s_version_remote))
  => (TokenVersionsAgree <=> s_pc = "done")

\* C2: after a call that began with an out-of-date cache has returned,
\* every path of the host tree is on the device with the host's type and
\* bytes.
C2_StaleCacheSyncMirrorsHost ==
  (s_pc = "done" /\ s_ood) =>
    \A path \in SPaths : s_host[path] # Absent => s_dev[path] = s_host[path]

\* Such a call returned although the cache had held the host's bytes of a
\* file that the device held differently, or not at all.
C2_Witness ==
  /\ s_pc = "done"
  /\ s_ood
  /\ \E path \in SPaths \ {TOKEN} :
       /\ s_host[path].t = "file"
       /\ s_cache0[path] = s_host[path]
       /\ s_dev0[path] # s_host[path]

\* C3 as stated: after a call has returned, the cache and the device hold
\* the same at every path of the host tree.
C3_CacheEqualsDevice ==
  s_pc = "done" =>
    \A path \in SPaths : s_host[path] # Absent => s_cache[path] = s_dev[path]

\* At the start the cache held, at every path of the host tree that it
\* held at all, what the device held there.
CacheWasTrue ==
  \A path \in SPaths \ {TOKEN} :
    (s_host[path] # Absent /\ s_cache0[path] # Absent) => s_cache0[path] = s_dev0[path]

\* C3, amended: after a call has returned, the cache and the device hold
\* the same at every path of the host tree other than the token file,
\* provided the call began with an out-of-date cache, or was made with both
\* force_enumerate_files and force_safe_update, or began with a cache that
\* held nothing different from the device at those paths.
C3_CacheEqualsDeviceAfterFullSync ==
  (s_pc = "done" /\ (s_ood \/ (s_fe /\ s_fs) \/ CacheWasTrue)) =>
    \A path \in SPaths \ {TOKEN} : s_host[path] # Absent => s_cache[path] = s_dev[path]

\* A call with both flags returned although its cache, of the device's
\* version, had held a file differently from the device.
C3_Witness ==
  /\ s_pc = "done"
  /\ ~s_ood /\ s_fe /\ s_fs
  /\ \E path \in SPaths \ {TOKEN} :
       /\ s_host[path].t = "file"
       /\ s_cache0[path].t = "file"
       /\ s_dev0[path] # s_cache0[path]

\* ------------------------------------------------------------------------
\* Claims about the diff planner
\* ------------------------------------------------------------------------

\* The bytes a plan stands for: new[j1:j2] of every "insert" and old[i1:i2]
\* of every "equal", in order.
ApplyPlan(plan, old, new) ==
  Concat([k \in 1 .. Len(plan) |->
            IF plan[k].tag = "insert" THEN PySlice(new, plan[k].j1, plan[k].j2)
            ELSE PySlice(old, plan[k].i1, plan[k].i2)])

\* C11: for all byte strings old and new and every equal_overhead and
\* seek_overhead, the planner ends without a failed sanity check, its plan
\* holds only Insert(j1, j2) and Equal(i1, i2) operations, and the pieces
\* new[j1:j2] and old[i1:i2] they name, concatenated in order, are new.
C11_PlanYieldsNew ==
  /\ d_pc # "AssertionError"
  /\ d_pc = "done" =>
       /\ \A k \in 1 .. Len(d_st.out) :
            \/ /\ d_st.out[k].tag = "insert"
               /\ d_st.out[k].j1 # None /\ d_st.out[k].j2 # None
               /\ d_st.out[k].i1 = None /\ d_st.out[k].i2 = None
            \/ /\ d_st.out[k].tag = "equal"
               /\ d_st.out[k].i1 # None /\ d_st.out[k].i2 # None
               /\ d_st.out[k].j1 = None /\ d_st.out[k].j2 = None
       /\ ApplyPlan(d_st.out, d_old, d_new) = d_new

\* A finished plan with an Insert and an Equal in it, made from opcodes with
\* a "replace" or a "delete" and an "equal" short enough to be absorbed.
C11_Witness ==
  /\ d_pc = "done"
  /\ \E k \in 1 .. Len(d_st.out) : d_st.out[k].tag = "insert"
  /\ \E k \in 1 .. Len(d_st.out) : d_st.out[k].tag = "equal"
  /\ LET ops == GetOpcodes(d_old, d_new)
         equals == {k \in 1 .. Len(ops) : ops[k].tag = "equal"}
     IN  /\ \E k \in 1 .. Len(ops) : ops[k].tag \in {"replace", "delete"}
         /\ Cardinality(equals) > Cardinality({k \in 1 .. Len(d_st.out) : d_st.out[k].tag = "equal"})

\* ------------------------------------------------------------------------
\* Claims about what sync_to_device touches
\* ------------------------------------------------------------------------

UnderHostFile(path) == Parent(path) # "" /\ s_host[Parent(path)].t = "file"

ClaimedToUpdate(host, cache, fresh, force_enumerate) ==
  IF fresh /\ ~force_enumerate
  THEN {path \in SPaths :
          /\ host[path] # Absent
          /\ \/ cache[path] = Absent
             \/ host[path].t # cache[path].t
             \/ host[path].t = "file" /\ host[path].c # cache[path].c}
  ELSE {path \in SPaths : host[path] # Absent}

\* C13: the step that makes to_update makes it the set the claim gives
\* (with a fresh cache and no force_enumerate: the host paths missing from
\* the cache, of another type there, or files with other bytes there;
\* otherwise all host paths), and no step of the two loops changes what the
\* device holds at a host path outside to_update.
C13_ToUpdateIsWhatChanged ==
  [][/\ (s_pc = "marked" /\ s_pc' \notin {"marked", "aborted"})
          => s_to_update' = ClaimedToUpdate(s_host, s_cache, ~s_ood, s_fe)
     /\ s_pc \in {"dirs", "files"}
          => \A path \in SPaths :
               (s_host[path] # Absent /\ path \notin s_to_update) => s_dev'[path] = s_dev[path]
    ]_vars

\* A completed sync with a fresh cache and no force_enumerate_files that
\* sent some host paths and left others alone.
C13_Witness ==
  /\ s_pc = "done"
  /\ ~s_ood /\ ~s_fe
  /\ s_to_update # {}
  /\ \E path \in SPaths : s_host[path] # Absent /\ path \notin s_to_update
  /\ \E path \in s_to_update : s_dev[path] # s_dev0[path]

\* ------------------------------------------------------------------------
\* Claims about a raw_paste_exec the device refuses
\* ------------------------------------------------------------------------

\* Where in r_out the current call wrote its b"\x05A\x01".
LastHandshake ==
  CHOOSE k \in 1 .. Len(r_out) - 2 :
    /\ SubSeq(r_out, k, k + 2) = <<5, 65, SOH>>
    /\ \A j \in k + 1 .. Len(r_out) - 2 : SubSeq(r_out, j, j + 2) # <<5, 65, SOH>>

IsCodeByte(b) == b # EOT

\* The code bytes the current call has written to the connection.
SentCode == SelectSeq(SubSeq(r_out, LastHandshake + 3, Len(r_out)), IsCodeByte)

\* The device sent 0x04 to a host waiting for the window to open, with
\* code still to send.
Refused == p_pc \in {"eot", "drain", "out"} /\ p_code # <<>>

\* C14 as stated: after the device refused further input with code unsent,
\* the host writes no more code, and the call ends by raising
\* SomeCodeNotSentError(exception output, output, remaining) where remaining
\* is the part of the UTF-8 code that was not written.
C14_RefusalRaisesSomeCodeNotSent ==
  [][Refused =>
       /\ r_out' \in {r_out, Append(r_out, EOT)}
       /\ p_code' = p_code
       /\ p_pc' = "idle" =>
            /\ p_result' = "SomeCodeNotSentError"
            /\ p_args' = <<p_outputs'.exception_output, p_outputs'.code_output, p_code>>
            /\ SentCode' \o p_args'[3] = Utf8(p_code0)
    ]_vars

\* C14, amended: after the device refused further input with code unsent,
\* the host writes no more code and the call does not return: when the
\* device's replies to the end-of-code byte, its two outputs and its ">"
\* are read, the call raises SomeCodeNotSentError(exception output, output,
\* remaining) where remaining is the part of the UTF-8 code that was not
\* written; when one of these reads fails it raises MicroPythonReplError.
C14_RefusalNeverReturns ==
  [][Refused =>
       /\ r_out' \in {r_out, Append(r_out, EOT)}
       /\ p_code' = p_code
       /\ p_pc' = "idle" =>
            /\ p_result' \in {"SomeCodeNotSentError", "MicroPythonReplError"}
            /\ p_outputs' # p_outputs => p_result' = "SomeCodeNotSentError"
            /\ p_result' = "SomeCodeNotSentError" =>
                 /\ p_args' = <<p_outputs'.exception_output, p_outputs'.code_output, p_code>>
                 /\ SentCode' \o p_args'[3] = Utf8(p_code0)
    ]_vars

\* A call that wrote part of its code, was refused, and raised
\* SomeCodeNotSentError with an output and no exception output.
C14_Witness ==
  /\ p_pc = "idle"
  /\ p_result = "SomeCodeNotSentError"
  /\ Len(p_args) = 3
  /\ p_args[3] # <<>>
  /\ p_args[3] # Utf8(p_code0)
  /\ p_args[1] = <<>> /\ p_args[2] # <<>>

\* ------------------------------------------------------------------------
\* Claims about batch_commands
\* ------------------------------------------------------------------------

\* The Python snippet of a seek or a copy, as characters: s(arg), w(r(arg)).
CmdText(c) ==
  IF c.kind = "seek" THEN <<115, 40>> \o DecDigits(c.arg) \o <<41>>
  ELSE <<119, 40, 114, 40>> \o DecDigits(c.arg) \o <<41, 41>>

\* "\n".join(texts)
RECURSIVE JoinLines(_)
JoinLines(texts) ==
  IF texts = <<>> THEN <<>>
  ELSE IF Len(texts) = 1 THEN Head(texts)
  ELSE Head(texts) \o <<10>> \o JoinLines(Tail(texts))

\* The text of a batch: "\n".join(this_batch)
BatchText(batch) == JoinLines([k \in 1 .. Len(batch.cmds) |-> CmdText(batch.cmds[k])])

\* Bytes written by the commands of a batch.
BatchSum(batch) == SumSeq([k \in 1 .. Len(batch.cmds) |-> batch.cmds[k].n])

C16_BatchesKeepEveryCommand ==
  b_pc = "done" =>
    /\ JoinLines([k \in 1 .. Len(b_out) |-> BatchText(b_out[k])])
         = JoinLines([k \in 1 .. Len(b_in) |-> CmdText(b_in[k])])
    /\ SumSeq([k \in 1 .. Len(b_out) |-> b_out[k].n])
         = SumSeq([k \in 1 .. Len(b_in) |-> b_in[k].n])

\* ------------------------------------------------------------------------
\* Claims about the token file
\* ------------------------------------------------------------------------

IsHexDigit(b) == IsDigit(b) \/ b \in 65 .. 70 \/ b \in 97 .. 102

\* Three decimal digits, one space, twelve hexadecimal digits.
ExactTokenForm(content) ==
  /\ Len(content) = 16
  /\ \A k \in 1 .. 3 : IsDigit(content[k])
  /\ content[4] = 32
  /\ \A k \in 5 .. 16 : IsHexDigit(content[k])

\* C19: get_upyt_id returns what the token file holds only if its content
\* is three decimal digits, a space and twelve hexadecimal digits; for any
\* other content (as for no file) it writes and returns a new token of
\* version 0.
C19_OnlyExactTokensAccepted ==
  (t_pc = "identified" /\ ~ExactTokenForm(t_file0)) =>
    /\ t_result.version = 0
    /\ t_result.device_id \in NewIds
    /\ t_file = EncodeUpytId(0, t_result.device_id)

\* The decimal digits the token file begins with.
RECURSIVE VersionField(_)
VersionField(content) ==
  IF content # <<>> /\ IsDigit(Head(content))
  THEN <<Head(content)>> \o VersionField(Tail(content))
  ELSE <<>>

\* C20: a token whose version field has four digits or more is not accepted
\* from the device (a new token of version 0 is made), and no token the
\* first steps of a sync write has a version field of other than three
\* digits, whatever the device held, version 999 included.
C20_VersionFieldKeepsThreeDigits ==
  /\ (t_pc = "identified" /\ t_file0 # NoFile /\ Len(VersionField(t_file0)) > 3)
       => (t_result.version = 0 /\ t_result.device_id \in NewIds)
  /\ t_file # t_file0 => Len(VersionField(t_file)) = 3

\* ------------------------------------------------------------------------
\* Claims about the token across a sync
\* ------------------------------------------------------------------------

\* C17: when the device held a valid token at the start of a sync, then at
\* every point of the run, and when it has ended (completed or aborted),
\* a token the device holds has the device_id it had at the start, and the
\* token a completed run wrote into the cache has it too.
C17_DeviceIdNeverChanges ==
  (s_pc # "idle" /\ ReadToken(s_dev0).ok) =>
    /\ ReadToken(s_dev).ok => ReadToken(s_dev).device_id = ReadToken(s_dev0).device_id
    /\ s_pc = "done" =>
         /\ ReadToken(s_cache).ok
         /\ ReadToken(s_cache).device_id = ReadToken(s_dev0).device_id

\* C18: from the moment a run has written the new version, whether it then
\* completes or fails, the device's token holds the version get_upyt_id
\* returned plus one, so never less than the version it held at the start;
\* and after a completed run the cache's token holds that version too.
C18_VersionGoesUpByOne ==
  /\ s_pc \in {"marked", "dirs", "files", "commit", "done", "OSError"} =>
       /\ ReadToken(s_dev).ok
       /\ ReadToken(s_dev).version = s_version_remote + 1
  /\ (s_pc # "idle" /\ ReadToken(s_dev0).ok /\ ReadToken(s_dev).ok) =>
       ReadToken(s_dev).version >= ReadToken(s_dev0).version
  /\ s_pc = "done" =>
       /\ ReadToken(s_cache).ok
       /\ ReadToken(s_cache).version = s_version_remote + 1

\* ------------------------------------------------------------------------
\* Claims about the token codec
\* ------------------------------------------------------------------------

IsDeviceId(id) == Len(id) = 12 /\ \A k \in 1 .. 12 : IsHexDigit(id[k])

\* C21: for 0 <= version < 1000 and a device_id of twelve hexadecimal
\* characters, decode_upyt_id(encode_upyt_id(version, device_id)) is
\* (version, device_id), and the encoded form is exactly three decimal
\* digits, a space and the device_id, with no line feed after it.
C21_CodecRoundTrip ==
  (c_pc = "decoded" /\ c_version >= 0 /\ c_version < 1000 /\ IsDeviceId(c_device_id)) =>
    /\ c_decoded = [ok |-> TRUE, version |-> c_version, device_id |-> c_device_id]
    /\ Len(c_encoded) = 16
    /\ \A k \in 1 .. 3 : IsDigit(c_encoded[k])
    /\ DigitsValue(SubSeq(c_encoded, 1, 3), 0) = c_version
    /\ c_encoded[4] = 32
    /\ SubSeq(c_encoded, 5, 16) = c_device_id

C21_Witness ==
  /\ c_pc = "decoded"
  /\ c_version = 123
  /\ c_device_id = <<49, 50, 51, 52, 53, 54, 55, 56, 57, 48, 97, 66>>
  /\ c_decoded.ok
  /\ c_decoded.version = 123

\* ------------------------------------------------------------------------
\* Claims about write_file_raw and read_file_raw
\* ------------------------------------------------------------------------

\* The blocks the snippets of cmds evaluate to; <<None>> for a snippet that
\* does not evaluate.
SnippetBlocks(cmds) ==
  [k \in 1 .. Len(cmds) |->
     IF EvalSnippet(cmds[k].python_snippet).ok
     THEN EvalSnippet(cmds[k].python_snippet).data ELSE <<None>>]

\* C22: data_to_writes splits x into consecutive blocks of at most
\* block_size bytes, in order (every block but the last is full), one
\* w(...) command per block whose bytes_written is the block's length and
\* whose argument evaluates to the block, so that the concatenated writes
\* are x; the empty string yields no command.
C22_WritesRebuildData ==
  (f_pc \in {"written", "reading", "read", "returned"}) =>
    LET blocks == SnippetBlocks(f_cmds)
    IN  /\ Concat(blocks) = f_content
        /\ \A k \in 1 .. Len(f_cmds) :
             /\ blocks[k] = PySlice(f_content, (k - 1) * f_bs, k * f_bs)
             /\ f_cmds[k].bytes_written = Len(blocks[k])
             /\ Len(blocks[k]) >= 1
             /\ Len(blocks[k]) <= f_bs
             /\ k < Len(f_cmds) => Len(blocks[k]) = f_bs
        /\ f_content = <<>> => f_cmds = <<>>

\* A block sent as hexadecimal text, w(uh(b'ffff')), and a literal one
\* delimited by double quotes, w(b"'").
C22_Witness ==
  /\ f_pc = "written"
  /\ f_content = <<255, 255, 39>>
  /\ f_bs = 2
  /\ Len(f_cmds) = 2
  /\ f_cmds[1].python_snippet
       = <<119, 40, 117, 104, 40, 98, 39, 102, 102, 102, 102, 39, 41, 41>>
  /\ f_cmds[1].bytes_written = 2
  /\ f_cmds[2].python_snippet = <<119, 40, 98, 34, 39, 34, 41>>

\* C23: write_file_raw then read_file_raw returns the content written; the
\* read loop stops at the first block shorter than block_size, so that it
\* makes len(x) // block_size + 1 reads (one extra, empty read when the
\* length is a multiple of block_size); the device's file is closed when
\* either call returns.
C23_WriteThenReadReturnsContent ==
  /\ f_pc \notin {"AssertionError", "SyntaxError"}
  /\ f_pc = "written" => (f_dev = f_content /\ f_open = "none")
  /\ f_pc \in {"reading", "read"} => f_reads <= Len(f_content) \div f_rbs + 1
  /\ f_pc = "reading" => (f_pos = f_reads * f_rbs /\ f_pos <= Len(f_content))
  /\ f_pc = "returned" =>
       /\ f_data = f_content
       /\ f_dev = f_content
       /\ f_open = "none"
       /\ f_reads = Len(f_content) \div f_rbs + 1

\* A file of exactly two blocks, over an older file: the third read is
\* empty.
C23_Witness ==
  /\ f_pc = "returned"
  /\ Len(f_content) = 2
  /\ f_rbs = 1
  /\ f_reads = 3
  /\ f_data = f_content
  /\ f_pos = 2

\* ------------------------------------------------------------------------
\* Claims about WebReplConnection
\* ------------------------------------------------------------------------

\* C24: when the receiver thread has received a ping frame it has replied
\* with a pong of the same payload and it goes on receiving (unless the
\* socket was closed), so that text frames arriving later still reach the
\* pipe.
C24_ReceiverContinuesAfterPing ==
  k_lastframe = "ping" =>
    /\ k_sent # <<>>
    /\ k_sent[Len(k_sent)].opcode \in {"pong", "text"}
    /\ \E k \in 1 .. Len(k_sent) : k_sent[k] = Frame("pong", <<112>>)
    /\ k_thread = "running" \/ k_sock = "closed"

\* C25: the constructor returns only if the prompt read ended with ": ",
\* and the three responses read after the password was written were
\* exactly "\r\n", "WebREPL connected\r\n" and ">>> "; when it raises, the
\* socket is closed.
C25_AuthDeviationRaises ==
  /\ (k_pc \in {"connected", "closed"} /\ k_auth # <<>>) =>
       /\ EndsWith(k_auth[1], ColonSpace)
       /\ k_auth[2] = CRLF
       /\ k_auth[3] = WebReplConnected
       /\ k_auth[4] = FixedPrompt
  /\ k_pc = "raised" => k_sock = "closed"

\* C26: a read made after close() returns empty bytes, a write made after
\* close() returns 0.
C26_AfterCloseReadsEmptyWritesZero ==
  k_last.call # "none" =>
    /\ k_last.raised = "none"
    /\ k_last.data = <<>>
    /\ k_last.n = 0

\* ------------------------------------------------------------------------
\* Claims about code with a Ctrl+D in it
\* ------------------------------------------------------------------------

\* A raw_paste_exec call is under way whose code holds a 0x04 byte.
PastingCtrlD ==
  /\ p_pc # "idle"
  /\ \E k \in 1 .. Len(Utf8(p_code0)) : Utf8(p_code0)[k] = EOT

C28_TimeoutRestored ==
  /\ i_pc \in {"loop", "wait_prompt", "probe", "wait_resp"} => i_timeout = InterruptTimeout
  /\ i_pc \in {"returned", "NoReplError"} => i_timeout = i_timeout0

\* NoReplError left the scope after an attempt, on a connection whose
\* timeout was 5 s.
C28_Witness ==
  /\ i_pc = "NoReplError"
  /\ i_attempt >= 1
  /\ i_timeout0 = WebReplTimeout
  /\ i_timeout = WebReplTimeout

\* ------------------------------------------------------------------------
\* Claims about the temporary file's name
\* ------------------------------------------------------------------------

\* C29: get_temp_file_name terminates, whatever files the device holds, and
\* the name update_file gets from it is the name of no file on the device.
C29_TempNameIsFresh ==
  /\ u_pc # "ReplError"
  /\ u_pc = "named" => u_dev[TempName] = NoFile

\* ------------------------------------------------------------------------
\* Claims about remove_recursive
\* ------------------------------------------------------------------------

\* path and everything below it
RmUnder(path) == {p \in RmDirs \cup RmFiles : p = path \/ RmParent(p) = path
                                               \/ RmParent(RmParent(p)) = path}

\* C30: remove_recursive terminates: an attempt that ended with Timeout has
\* removed at least one entry (and nothing outside path), the host issues
\* the command again after it, and the call ends by returning, with path
\* and all below it gone and the rest of the device untouched, or by raising
\* OSError.
C30_RemoveRecursiveTerminates ==
  /\ []((x_pc = "host" /\ x_attempts > 0) =>
          (x_tree # x_issue /\ x_tree \subseteq x_issue /\ ENABLED XIssue))
  /\ [](x_pc = "returned" =>
          (x_tree \cap RmUnder(x_path) = {} /\ x_tree = x_tree0 \ RmUnder(x_path)))
  /\ [](x_attempts <= Cardinality(x_tree0) + 1)
  /\ <>(x_pc \in {"returned", "OSError"})

\* A tree of two files and a subdirectory with a file, removed in three
\* attempts.
C30_Witness ==
  /\ x_pc = "returned"
  /\ x_path = "d"
  /\ x_tree0 = {"f", "d", "d/x", "d/y", "d/s", "d/s/x"}
  /\ x_tree = {"f"}
  /\ x_attempts = 3

\* C31: with all of the code accepted, the end-of-code byte 0x04 is written
\* only while at least one byte of window is left, or after the device
\* refused more data with 0x04: a window used up exactly is first opened
\* again by a 0x01.
C31_EotOnlyWithWindow ==
  [][(p_pc # "drain" /\ p_pc' = "drain" /\ p_code = <<>>) =>
       /\ r_out' = Append(r_out, EOT)
       /\ p_window >= 1 \/ p_pc = "eot"
       /\ p_pc = "eot" => p_window = 0
    ]_vars

\* Two bytes of code and a window of two: the window was used up by the
\* code, one 0x01 opened it again, and the end of the code was written.
C31_Witness ==
  /\ p_pc = "drain"
  /\ p_code0 = <<97, 97>> /\ p_code = <<>>
  /\ p_W = 2 /\ p_window = 2 /\ p_acks = 1
  /\ r_out = <<SOH, 5, 65, SOH, 97, 97, EOT>>

\* ------------------------------------------------------------------------
\* Claims about raw_paste_exec byte by byte
\* ------------------------------------------------------------------------

\* What the last call read of the device's bytes.
QConsumed == SubSeq(q_in0, 1, Len(q_in0) - Len(q_in))

\* s has none of the bytes in set from position i to position j
QNone(s, i, j, set) == \A k \in i .. j : s[k] \notin set

\* C32: a raw_paste_exec that returned has read the device's bytes exactly
\* through the ">" of the raw prompt: b"R\x01", the window, the 0x01 bytes
\* (and the 0x04 of a refusal), the 0x04 that acknowledges the end of the
\* code, the output it returns up to the next 0x04, the exception output it
\* returns up to the 0x04 after that, and on to the first ">" and no
\* further, so the next call reads its own b"R\x01" first.
C32_ConsumesThroughPrompt ==
  (q_pc = "idle" /\ q_result = "returned") =>
    LET c == QConsumed
        n == Len(c)
    IN  /\ q_in = SubSeq(q_in0, n + 1, Len(q_in0))
        /\ n >= 8
        /\ SubSeq(c, 1, 2) = <<82, SOH>>
        /\ c[n] = 62
        /\ \E a \in 5 .. n, b \in 5 .. n, d \in 5 .. n :
             /\ a < b /\ b < d /\ d < n
             /\ c[a] = EOT /\ c[b] = EOT /\ c[d] = EOT
             /\ IF q_refused
                THEN \E x \in 5 .. a - 1 :
                       /\ c[x] = EOT
                       /\ QNone(c, 5, x - 1, {EOT}) /\ QNone(c, x + 1, a - 1, {EOT})
                ELSE QNone(c, 5, a - 1, {EOT})
             /\ QNone(c, a + 1, b - 1, {EOT})
             /\ QNone(c, b + 1, d - 1, {EOT})
             /\ QNone(c, d + 1, n - 1, {62})
             /\ q_stdout = SubSeq(c, a + 1, b - 1)
             /\ q_stderr = SubSeq(c, b + 1, d - 1)

\* Two calls in a row returned: the second read its own handshake reply
\* and returned its own output "o", after a first call whose output was
\* ">".
C32_Witness ==
  /\ q_pc = "idle" /\ q_calls = 2
  /\ q_prev = "returned" /\ q_result = "returned"
  /\ q_in0 = <<82, 1, 2, 0, EOT, 111, EOT, EOT, 62>>
  /\ q_in = <<>>
  /\ q_stdout = <<111>> /\ q_stderr = <<>>

\* C33: a raw_paste_exec that raises ValueError for a 0x04 in the code has
\* written nothing to the connection and read nothing from it.
C33_ValueErrorChangesNothing ==
  (q_pc = "idle" /\ q_result = "ValueError") => (q_out = q_out0 /\ q_in = q_in0)

\* ------------------------------------------------------------------------
\* Claims about _ensure_defined
\* ------------------------------------------------------------------------

\* The names name depends on, directly or through others.
RECURSIVE AllDependencies(_)
AllDependencies(name) ==
  {Dependencies[name][k] : k \in 1 .. Len(Dependencies[name])}
    \cup UNION {AllDependencies(Dependencies[name][k]) : k \in 1 .. Len(Dependencies[name])}

\* C34: between the methods of the facade every name in the set of defined
\* helpers has had its definition and those of all it depends on executed
\* on the device, a dependency before what depends on it; no definition
\* is sent twice; and no helper is invoked before it is defined.
C34_DefinedMeansOnDevice ==
  /\ e_pc = "idle" =>
       \A name \in e_defined : {name} \cup AllDependencies(name) \subseteq e_device
  /\ \A i \in 1 .. Len(e_sent), j \in 1 .. Len(e_sent) :
       /\ e_sent[i] = e_sent[j] => i = j
       /\ e_sent[i] \in AllDependencies(e_sent[j]) => i < j
  /\ e_result # "NameError"

\* ------------------------------------------------------------------------
\* More claims about sync_to_device
\* ------------------------------------------------------------------------

\* The device once a directory in the way of the file at path is removed.
SCleared(path) == IF GetType(s_dev, path) = "dir" THEN RemoveTree(s_dev, path) ELSE s_dev

\* The round of the second loop that is about to run cannot patch its
\* file: the cached copy cannot be read or the device has no such file
\* (OSError), or update_file raises UpdateError.
SUpdateFails ==
  LET path == SOrder[s_i]
  IN  \/ s_cache[path].t # "file"
      \/ SCleared(path)[path].t # "file"
      \/ UpdateFileResult(SCleared(path)[path].c, s_cache[path].c, s_host[path].c,
                          DefaultBlockSize, DefaultCommandLimit, s_ood \/ s_fs).status # "ok"

\* C35 as stated: when update_file or the read of the cached copy fails
\* with OSError or UpdateError, the whole file is written, copied into the
\* cache, and the call goes on; any other exception ends the call with the
\* cache's token as it was.
C35_FallbackWritesWholeFile ==
  [][/\ (s_pc = "files" /\ SUpdateFails /\ s_pc' # "aborted") =>
          /\ s_dev'[SOrder[s_i]] = FileEntry(s_host[SOrder[s_i]].c)
          /\ s_cache'[SOrder[s_i]] = FileEntry(s_host[SOrder[s_i]].c)
          /\ s_pc' \in {"files", "commit"}
     /\ s_pc' = "aborted" => s_cache' = s_cache
    ]_vars

\* C35, amended: when update_file or the read of the cached copy fails with
\* OSError or UpdateError, write_file is called with the whole file; if it
\* succeeds the file is copied into the cache and the call goes on, and if
\* it raises OSError (no directory to put the file in) the call ends like
\* with any other exception, the cache and its token as they were.
C35_FallbackWritesWholeFileOrRaises ==
  [][/\ (s_pc = "files" /\ SUpdateFails /\ s_pc' # "aborted") =>
          \/ /\ s_dev'[SOrder[s_i]] = FileEntry(s_host[SOrder[s_i]].c)
             /\ s_cache'[SOrder[s_i]] = FileEntry(s_host[SOrder[s_i]].c)
             /\ s_pc' \in {"files", "commit"}
          \/ /\ ~ParentIsDir(SCleared(SOrder[s_i]), SOrder[s_i])
             /\ s_pc' = "OSError"
             /\ s_cache' = s_cache
     /\ s_pc' \in {"aborted", "OSError"} => s_cache' = s_cache
     /\ s_pc \in {"aborted", "OSError"} => s_pc' = s_pc
    ]_vars

\* A call with a cache of the device's version and force_safe_update
\* returned: update_file raised UpdateError for "a/b", which the device
\* held differently from the cache, and the whole file was written.
C35_Witness ==
  /\ s_pc = "done"
  /\ ~s_ood /\ s_fs
  /\ s_cache0["a/b"].t = "file" /\ s_dev0["a/b"].t = "file" /\ s_host["a/b"].t = "file"
  /\ UpdateFileResult(s_dev0["a/b"].c, s_cache0["a/b"].c, s_host["a/b"].c,
                      DefaultBlockSize, DefaultCommandLimit, TRUE).status = "UpdateError"
  /\ s_dev["a/b"] = s_host["a/b"]
  /\ s_cache["a/b"] = s_host["a/b"]

C37_CacheMirrorsHost ==
  s_pc = "done" =>
    \A path \in SPaths :
      IF s_host[path] # Absent THEN s_cache[path] = s_host[path]
      ELSE IF path = TOKEN THEN s_cache[path].t = "file"
      ELSE s_cache[path] = Absent

\* ------------------------------------------------------------------------
\* Claims about enumerate_local_files
\* ------------------------------------------------------------------------

\* C38: whatever exclude list the caller passes, no path inside
\* host_dir/.upyt_cache, nor that directory, is among the host paths
\* enumerated (of which to_update is a subset) or is visited.
C38_CacheNeverEnumerated ==
  /\ \A p \in n_yielded : p[1] # CacheDirName
  /\ \A k \in 1 .. Len(n_to_visit) :
       n_to_visit[k] = <<>> \/ n_to_visit[k][1] # CacheDirName

\* With an empty exclude list and a file mirrored in the cache, the
\* enumeration ended with the host's own three paths.
C38_Witness ==
  /\ n_pc = "done"
  /\ n_exclude = <<>>
  /\ <<CacheDirName, "ID", "a">> \in n_tree
  /\ n_yielded = {<<"a">>, <<"d">>, <<"d", "a">>}

\* ------------------------------------------------------------------------
\* Claims about data_to_update_commands
\* ------------------------------------------------------------------------

\* The sum of bytes_written over cmds.
RECURSIVE BytesWritten(_)
BytesWritten(cmds) == IF cmds = <<>> THEN 0 ELSE Head(cmds).n + BytesWritten(Tail(cmds))

\* The bytes the write commands of cmds carry, in order.
RECURSIVE WrittenData(_)
WrittenData(cmds) == IF cmds = <<>> THEN <<>> ELSE Head(cmds).data \o WrittenData(Tail(cmds))

\* C39: for an Equal(i1, i2) of the plan a seek s(i1) is emitted exactly if
\* the read cursor is not at i1, then w(r(n)) commands with
\* 1 <= n <= block_size that sum to i2 - i1, and the cursor ends at i2; for
\* an Insert, writes of 1 to block_size bytes that carry new[j1:j2]; a seek
\* reports 0 bytes written; and the bytes_written of all commands sum to
\* len(new).
C39_CommandsFollowPlan ==
  /\ [][(g_pc = "loop" /\ g_ops # <<>>) =>
          LET o == Head(g_ops)
              added == SubSeq(g_cmds', Len(g_cmds) + 1, Len(g_cmds'))
              seeks == IF g_ro # o.i1 THEN 1 ELSE 0
          IN  /\ SubSeq(g_cmds', 1, Len(g_cmds)) = g_cmds
              /\ o.tag \in {"equal", "insert"}
              /\ o.tag = "equal" =>
                   /\ Len(added) >= seeks
                   /\ seeks = 1 => added[1] = Cmd("seek", <<>>, o.i1, 0)
                   /\ \A k \in seeks + 1 .. Len(added) :
                        /\ added[k].kind = "copy"
                        /\ added[k].arg = added[k].n
                        /\ added[k].n >= 1 /\ added[k].n <= g_bs
                   /\ BytesWritten(added) = o.i2 - o.i1
                   /\ g_ro' = o.i2
              /\ o.tag = "insert" =>
                   /\ \A k \in 1 .. Len(added) :
                        /\ added[k].kind \in {"lit", "hex"}
                        /\ added[k].n = Len(added[k].data)
                        /\ added[k].n >= 1 /\ added[k].n <= g_bs
                   /\ WrittenData(added) = PySlice(g_new, o.j1, o.j2)
                   /\ g_ro' = g_ro
       ]_vars
  /\ [](g_pc = "done" => BytesWritten(g_cmds) = Len(g_new))

\* For old = b"\x00\x01\x02\x03\x04\x05\x06\x00\x01" and
\* new = b"\x00\x01\x02\x03\x04\x05\x06\x01" with block_size 3 the run
\* ended with w(r(3)), w(r(3)), w(r(1)), s(8), w(r(1)).
C39_Witness ==
  /\ g_pc = "done"
  /\ g_old = <<0, 1, 2, 3, 4, 5, 6, 0, 1>> /\ g_new = <<0, 1, 2, 3, 4, 5, 6, 1>> /\ g_bs = 3
  /\ g_cmds = <<Cmd("copy", <<>>, 3, 3), Cmd("copy", <<>>, 3, 3), Cmd("copy", <<>>, 1, 1),
               Cmd("seek", <<>>, 8, 0), Cmd("copy", <<>>, 1, 1)>>

\* ------------------------------------------------------------------------
\* Claims about the sending side of WebReplConnection
\* ------------------------------------------------------------------------

\* The frames before the last of a list.
AllButLast(s) == SubSeq(s, 1, Len(s) - 1)

\* C40: every frame, the caller's text frames and the receiver thread's
\* pong and close replies, is written to the socket by a thread that holds
\* the send lock, so what the socket has taken is always whole frames, in
\* the order they were begun, and at most the beginning of one more.
C40_FramesNeverInterleaved ==
  /\ [](l_cpc = "sending" => l_lock = "caller")
  /\ [](l_rpc = "sending" => l_lock = "receiver")
  /\ [](LET all == Concat(l_frames)
        IN  /\ Len(l_out) <= Len(all)
            /\ l_out = SubSeq(all, 1, Len(l_out))
            /\ Len(l_out) >= Len(Concat(AllButLast(l_frames))))
  /\ [][l_out' # l_out =>
          /\ l_lock # "free" /\ l_lock' = l_lock
          /\ l_lock = "caller" => l_rbuf' = l_rbuf /\ l_cbuf = SubSeq(l_out', Len(l_out) + 1, Len(l_out')) \o l_cbuf'
          /\ l_lock = "receiver" => l_cbuf' = l_cbuf /\ l_rbuf = SubSeq(l_out', Len(l_out) + 1, Len(l_out')) \o l_rbuf'
     ]_vars

\* The receiver thread has a pong to send and waits for the lock while the
\* caller is in the middle of a frame.
C40_Witness ==
  /\ l_rpc = "reply" /\ l_rframe.opcode = OpPing
  /\ l_cpc = "sending" /\ l_cbuf # <<>> /\ Len(l_cbuf) < Len(l_frames[Len(l_frames)])

====
